---- MODULE Spec2Model ----
(***************************************************************************)
(* A model of whatsapp-cloud-api-py: error classification and retry hints  *)
(* (errors/), the HTTP transport (client.py), media download               *)
(* (resources/media.py) and webhook normalization (webhooks/normalize.py). *)
(*                                                                         *)
(* Python strings whose characters matter (header values, map keys) are    *)
(* sequences of one-character strings; None is the record Absent.          *)
(***************************************************************************)
EXTENDS Integers, Sequences, FiniteSets, TLC

VARIABLES
    errCall,    \* the errors/ function last called, with its arguments
    errOut,     \* what that call returned or raised
    owns_client,     \* WhatsAppClient._owns_client
    http_closed,     \* is_closed of the httpx client behind WhatsAppClient._http
    teardowns,       \* aclose() calls that have run on this client (capped)
    cliCall,         \* the client operation in progress or last finished
    sent,            \* HTTP requests handed to the httpx client by that operation
    cliOut,          \* what that operation returned or raised
    payload,         \* normalize_webhook: the payload's entries
    ei,              \* index of the entry being processed
    ci,              \* index of the change being processed within the entry
    all_messages, all_statuses, all_contacts, raw,
    phone_number_id, display_phone_number,
    whOut,           \* "running", "returned" or "raised"
    fnCall,          \* the pure function last called, with its arguments
    fnOut,           \* what that call returned or raised
    webhook,         \* dispatch_webhook: the NormalizedWebhook it is given
    di,              \* index of the next message, then status, to dispatch
    emitted,         \* events handed to emitter.emit, in order
    dOut,            \* "running", "returned", "raised" or "sink raised"
    flows,           \* flows that exist on the remote side
    flCall,          \* the FlowsResource call in progress or last finished
    flSent,          \* requests that call has issued, in order
    flOut            \* what that call returned or raised

errVars == <<errCall, errOut>>
cliVars == <<owns_client, http_closed, teardowns, cliCall, sent, cliOut>>
whVars  == <<payload, ei, ci, all_messages, all_statuses, all_contacts, raw,
             phone_number_id, display_phone_number, whOut>>
fnVars  == <<fnCall, fnOut>>
dspVars == <<webhook, di, emitted, dOut>>
flVars  == <<flows, flCall, flSent, flOut>>
restVars == <<fnVars, dspVars, flVars>>
vars    == <<errVars, cliVars, whVars, restVars>>

-----------------------------------------------------------------------------
(* Optional values: Python's None and a present value.                     *)

Absent == [present |-> FALSE, v |-> 0]
Some(x) == [present |-> TRUE, v |-> x]
\* None where a str is expected
NoStr == [present |-> FALSE, v |-> <<>>]

-----------------------------------------------------------------------------
(* errors/categorize.py                                                    *)

ErrorCategory ==
    {"authorization", "permission", "parameter", "throttling", "template",
     "media", "phone_registration", "integrity", "business_eligibility",
     "reengagement_window", "waba_config", "flow", "synchronization",
     "server", "unknown"}

_CODE_TO_CATEGORY ==
    (0 :> "authorization") @@ (190 :> "authorization") @@
    (10 :> "permission") @@ (200 :> "permission") @@ (299 :> "permission") @@
    (4 :> "throttling") @@ (80007 :> "throttling") @@ (130429 :> "throttling") @@
    (131048 :> "throttling") @@ (131056 :> "throttling") @@
    (33 :> "parameter") @@ (100 :> "parameter") @@ (130472 :> "parameter") @@
    (131008 :> "parameter") @@ (131009 :> "parameter") @@ (131021 :> "parameter") @@
    (131026 :> "parameter") @@ (135000 :> "parameter") @@
    (131051 :> "media") @@ (131052 :> "media") @@ (131053 :> "media") @@
    (132000 :> "template") @@ (132001 :> "template") @@ (132005 :> "template") @@
    (132007 :> "template") @@ (132012 :> "template") @@ (132015 :> "template") @@
    (132016 :> "template") @@
    (132068 :> "flow") @@ (132069 :> "flow") @@
    (133000 :> "phone_registration") @@ (133004 :> "phone_registration") @@
    (133005 :> "phone_registration") @@ (133006 :> "phone_registration") @@
    (133008 :> "phone_registration") @@ (133009 :> "phone_registration") @@
    (133010 :> "phone_registration") @@ (133015 :> "phone_registration") @@
    (133016 :> "phone_registration") @@
    (131047 :> "reengagement_window") @@
    (368 :> "integrity") @@ (130497 :> "integrity") @@ (131031 :> "integrity")

\* A slip that tests the status before the table.
categorize_error_status_first(code, http_status) ==
    IF http_status.present /\ http_status.v >= 500 THEN "server"
    ELSE IF code.present /\ code.v \in DOMAIN _CODE_TO_CATEGORY
         THEN _CODE_TO_CATEGORY[code.v]
         ELSE "unknown"

\* A slip that takes every 4xx/5xx status for a server error.
categorize_error_any_failure(code, http_status) ==
    IF code.present /\ code.v \in DOMAIN _CODE_TO_CATEGORY
    THEN _CODE_TO_CATEGORY[code.v]
    ELSE IF http_status.present /\ http_status.v >= 400 THEN "server"
         ELSE "unknown"

categorize_error(code, http_status) ==
    IF code.present /\ code.v \in DOMAIN _CODE_TO_CATEGORY
    THEN _CODE_TO_CATEGORY[code.v]
    ELSE IF http_status.present /\ http_status.v >= 500 THEN "server"
         ELSE "unknown"

-----------------------------------------------------------------------------
(* errors/retry.py                                                         *)

_CATEGORY_RETRY ==
    [c \in ErrorCategory |->
        CASE c = "authorization"        -> "refresh_token"
          [] c = "permission"           -> "fix_and_retry"
          [] c = "parameter"            -> "fix_and_retry"
          [] c = "throttling"           -> "retry_after"
          [] c = "template"             -> "fix_and_retry"
          [] c = "media"                -> "fix_and_retry"
          [] c = "phone_registration"   -> "fix_and_retry"
          [] c = "integrity"            -> "do_not_retry"
          [] c = "business_eligibility" -> "do_not_retry"
          [] c = "reengagement_window"  -> "do_not_retry"
          [] c = "waba_config"          -> "fix_and_retry"
          [] c = "flow"                 -> "fix_and_retry"
          [] c = "synchronization"      -> "retry"
          [] c = "server"               -> "retry"
          [] c = "unknown"              -> "retry"]

DefaultRetryAfterMs == 60000

Digits == {"0", "1", "2", "3", "4", "5", "6", "7", "8", "9"}

DigitValue ==
    ("0" :> 0) @@ ("1" :> 1) @@ ("2" :> 2) @@ ("3" :> 3) @@ ("4" :> 4) @@
    ("5" :> 5) @@ ("6" :> 6) @@ ("7" :> 7) @@ ("8" :> 8) @@ ("9" :> 9)

\* The number written by the first n digits of s.
RECURSIVE DecimalPrefix(_, _)
DecimalPrefix(s, n) ==
    IF n = 0 THEN 0 ELSE 10 * DecimalPrefix(s, n - 1) + DigitValue[s[n]]

DecimalValue(s) == DecimalPrefix(s, Len(s))

RECURSIVE Pow10(_)
Pow10(n) == IF n = 0 THEN 1 ELSE 10 * Pow10(n - 1)

AllDigits(s) == \A i \in 1..Len(s) : s[i] \in Digits

\* float(str) on the part of Python's grammar the headers here use: an
\* optional sign, then "inf", "nan", or digits with at most one point.
\* kind "finite" stands for the value mant / 10^scale, negated when neg.
float(s) ==
    LET neg  == Len(s) > 0 /\ s[1] = "-"
        body == IF Len(s) > 0 /\ s[1] \in {"-", "+"} THEN Tail(s) ELSE s
        dots == {i \in 1..Len(body) : body[i] = "."}
    IN  IF body = <<"i", "n", "f">> THEN [kind |-> "inf", neg |-> neg, mant |-> 0, scale |-> 0]
        ELSE IF body = <<"n", "a", "n">> THEN [kind |-> "nan", neg |-> neg, mant |-> 0, scale |-> 0]
        ELSE IF Cardinality(dots) = 0 /\ Len(body) > 0 /\ AllDigits(body)
             THEN [kind |-> "finite", neg |-> neg, mant |-> DecimalValue(body), scale |-> 0]
        ELSE IF Cardinality(dots) = 1
             THEN LET d    == CHOOSE i \in dots : TRUE
                      ip   == SubSeq(body, 1, d - 1)
                      fp   == SubSeq(body, d + 1, Len(body))
                  IN  IF Len(ip) + Len(fp) > 0 /\ AllDigits(ip) /\ AllDigits(fp)
                      THEN [kind |-> "finite", neg |-> neg,
                            mant |-> DecimalValue(ip \o fp), scale |-> Len(fp)]
                      ELSE [kind |-> "ValueError", neg |-> FALSE, mant |-> 0, scale |-> 0]
        ELSE [kind |-> "ValueError", neg |-> FALSE, mant |-> 0, scale |-> 0]

\* int(float(header) * 1000) under contextlib.suppress(ValueError, TypeError):
\* int() truncates towards zero, raises ValueError on a NaN (suppressed) and
\* OverflowError on an infinity (not suppressed).
RetryAfterMs(header) ==
    LET f == float(header)
    IN  CASE f.kind = "ValueError" -> [kind |-> "none", ms |-> 0]
          [] f.kind = "nan"        -> [kind |-> "none", ms |-> 0]
          [] f.kind = "inf"        -> [kind |-> "OverflowError", ms |-> 0]
          [] f.kind = "finite"     ->
                LET mag == (f.mant * 1000) \div Pow10(f.scale)
                IN  [kind |-> "int", ms |-> IF f.neg THEN 0 - mag ELSE mag]

Raised(exc) == [kind |-> "raise", exc |-> exc, action |-> "", retry_after_ms |-> Absent]
RetryHint(action, ms) == [kind |-> "hint", exc |-> "", action |-> action, retry_after_ms |-> ms]

\* A slip that leaves out the 60 s default of a retry_after hint.
get_retry_hint_no_default(category, retry_after_header) ==
    LET action == IF category \in DOMAIN _CATEGORY_RETRY
                  THEN _CATEGORY_RETRY[category] ELSE "retry"
        parsed == IF retry_after_header.present
                  THEN RetryAfterMs(retry_after_header.v)
                  ELSE [kind |-> "none", ms |-> 0]
    IN  IF parsed.kind = "OverflowError" THEN Raised("OverflowError")
        ELSE IF parsed.kind = "int" THEN RetryHint(action, Some(parsed.ms))
        ELSE RetryHint(action, Absent)

get_retry_hint(category, retry_after_header) ==
    LET action == IF category \in DOMAIN _CATEGORY_RETRY
                  THEN _CATEGORY_RETRY[category] ELSE "retry"
        parsed == IF retry_after_header.present
                  THEN RetryAfterMs(retry_after_header.v)
                  ELSE [kind |-> "none", ms |-> 0]
    IN  IF parsed.kind = "OverflowError" THEN Raised("OverflowError")
        ELSE IF parsed.kind = "int" THEN RetryHint(action, Some(parsed.ms))
        ELSE IF action = "retry_after" THEN RetryHint(action, Some(DefaultRetryAfterMs))
        ELSE RetryHint(action, Absent)

-----------------------------------------------------------------------------
(* Decoded JSON values. A map is its items in insertion order, each        *)
(* [k |-> key, v |-> value]; a Python dict holds each key once.            *)

JNull      == [t |-> "null", s |-> <<>>, n |-> 0, kv |-> <<>>, items |-> <<>>]
JStr(s)    == [t |-> "str",  s |-> s,    n |-> 0, kv |-> <<>>, items |-> <<>>]
JInt(n)    == [t |-> "int",  s |-> <<>>, n |-> n, kv |-> <<>>, items |-> <<>>]
JMap(kv)   == [t |-> "map",  s |-> <<>>, n |-> 0, kv |-> kv,   items |-> <<>>]
JList(xs)  == [t |-> "list", s |-> <<>>, n |-> 0, kv |-> <<>>, items |-> xs]
JBool(b)   == [t |-> "bool", s |-> <<>>, n |-> IF b THEN 1 ELSE 0, kv |-> <<>>, items |-> <<>>]
Item(k, v) == [k |-> k, v |-> v]

HasKey(m, key) == \E i \in 1..Len(m.kv) : m.kv[i].k = key
ValueAt(m, key) == m.kv[CHOOSE i \in 1..Len(m.kv) : m.kv[i].k = key].v

\* dict.get(key, default)
Get(m, key, default) == IF HasKey(m, key) THEN ValueAt(m, key) ELSE default

\* The members of a set of indices, ascending.
Ascending(S) ==
    [n \in 1..Cardinality(S) |-> CHOOSE i \in S : Cardinality({j \in S : j < i}) = n - 1]

\* The dict built by inserting items 1..Len(keys) in order, item i under
\* keys[i] with value vals[i]: a key inserted again keeps its first position
\* and takes the later value.
DictOf(keys, vals) ==
    LET n     == Len(keys)
        first == Ascending({i \in 1..n : \A j \in 1..(i - 1) : keys[j] # keys[i]})
    IN  [p \in 1..Len(first) |->
            Item(keys[first[p]],
                 vals[CHOOSE j \in 1..n :
                        /\ keys[j] = keys[first[p]]
                        /\ \A l \in (j + 1)..n : keys[l] # keys[j]])]

\* Python truthiness, as `x or y` and `if x:` test it
Truthy(x) ==
    CASE x.t = "null" -> FALSE
      [] x.t = "str"  -> x.s # <<>>
      [] x.t = "int"  -> x.n # 0
      [] x.t = "map"  -> x.kv # <<>>
      [] x.t = "list" -> x.items # <<>>
      [] x.t = "bool" -> x.n # 0

-----------------------------------------------------------------------------
(* utils/case.py                                                           *)

Lowers == <<"a", "b", "c", "d", "e", "f", "g", "h", "i", "j", "k", "l", "m",
            "n", "o", "p", "q", "r", "s", "t", "u", "v", "w", "x", "y", "z">>
Uppers == <<"A", "B", "C", "D", "E", "F", "G", "H", "I", "J", "K", "L", "M",
            "N", "O", "P", "Q", "R", "S", "T", "U", "V", "W", "X", "Y", "Z">>

IsLower(c) == \E i \in 1..26 : Lowers[i] = c
IsUpper(c) == \E i \in 1..26 : Uppers[i] = c
lower(c) == IF IsUpper(c) THEN Lowers[CHOOSE i \in 1..26 : Uppers[i] = c] ELSE c
upper(c) == IF IsLower(c) THEN Uppers[CHOOSE i \in 1..26 : Lowers[i] = c] ELSE c

\* _SNAKE_RE = (?<=[a-z0-9])([A-Z]), replaced by "_\1", then .lower()
RECURSIVE SnakeFrom(_, _)
SnakeFrom(s, i) ==
    IF i > Len(s) THEN <<>>
    ELSE (IF i > 1 /\ IsUpper(s[i]) /\ (IsLower(s[i - 1]) \/ s[i - 1] \in Digits)
          THEN <<"_", lower(s[i])>> ELSE <<lower(s[i])>>) \o SnakeFrom(s, i + 1)

to_snake(s) == SnakeFrom(s, 1)

\* _CAMEL_RE = _([a-z0-9]), replaced by the captured character upper-cased
RECURSIVE CamelFrom(_, _)
CamelFrom(s, i) ==
    IF i > Len(s) THEN <<>>
    ELSE IF s[i] = "_" /\ i < Len(s) /\ (IsLower(s[i + 1]) \/ s[i + 1] \in Digits)
         THEN <<upper(s[i + 1])>> \o CamelFrom(s, i + 2)
         ELSE <<s[i]>> \o CamelFrom(s, i + 1)

to_camel(s) == CamelFrom(s, 1)

\* [to_snake_deep(item) for item in obj] and
\* {to_snake(k): to_snake_deep(v) for k, v in obj.items()}
RECURSIVE to_snake_deep(_)
to_snake_deep(obj) ==
    CASE obj.t = "list" -> JList([i \in 1..Len(obj.items) |-> to_snake_deep(obj.items[i])])
      [] obj.t = "map"  ->
            JMap(DictOf([i \in 1..Len(obj.kv) |-> JStr(to_snake(obj.kv[i].k.s))],
                        [i \in 1..Len(obj.kv) |-> to_snake_deep(obj.kv[i].v)]))
      [] OTHER          -> obj

\* [to_camel_deep(item) for item in obj] and
\* {to_camel(k): to_camel_deep(v) for k, v in obj.items()}
RECURSIVE to_camel_deep(_)
to_camel_deep(obj) ==
    CASE obj.t = "list" -> JList([i \in 1..Len(obj.items) |-> to_camel_deep(obj.items[i])])
      [] obj.t = "map"  ->
            JMap(DictOf([i \in 1..Len(obj.kv) |-> JStr(to_camel(obj.kv[i].k.s))],
                        [i \in 1..Len(obj.kv) |-> to_camel_deep(obj.kv[i].v)]))
      [] OTHER          -> obj

\* to_snake and to_camel hand the key to re.sub, which raises TypeError on a
\* key that is not a string: the deep conversions fail on a value with such
\* a key at any depth, and are the two operators above on every other value.
RECURSIVE HasNonStringKey(_)
HasNonStringKey(obj) ==
    CASE obj.t = "list" -> \E i \in 1..Len(obj.items) : HasNonStringKey(obj.items[i])
      [] obj.t = "map"  -> \E i \in 1..Len(obj.kv) :
                              obj.kv[i].k.t # "str" \/ HasNonStringKey(obj.kv[i].v)
      [] OTHER          -> FALSE


-----------------------------------------------------------------------------
(* errors/graph_api_error.py                                               *)
(* A string whose characters are never inspected (a message, an id) is     *)
(* held as a single token, <<"Bad param">>.                                *)

\* The keys from_response reads.
ErrorKey ==
    [ error |-> JStr(<<"e", "r", "r", "o", "r">>),
      message |-> JStr(<<"m", "e", "s", "s", "a", "g", "e">>),
      code |-> JStr(<<"c", "o", "d", "e">>),
      type |-> JStr(<<"t", "y", "p", "e">>),
      details |-> JStr(<<"d", "e", "t", "a", "i", "l", "s">>),
      error_user_msg |-> JStr(<<"e", "r", "r", "o", "r", "_", "u", "s", "e", "r", "_", "m", "s", "g">>),
      error_subcode |-> JStr(<<"e", "r", "r", "o", "r", "_", "s", "u", "b", "c", "o", "d", "e">>),
      fbtrace_id |-> JStr(<<"f", "b", "t", "r", "a", "c", "e", "_", "i", "d">>),
      error_data |-> JStr(<<"e", "r", "r", "o", "r", "_", "d", "a", "t", "a">>) ]

Raise(exc) == [kind |-> "raise", exc |-> exc]

\* GraphApiError.__init__: the fields, then category and retry computed from
\* them. A code that is a map or a list is unhashable (`code in dict` raises
\* TypeError); a code that is a string is a key of no table entry.
GraphApiError(message, http_status, code, type_, details, error_subcode, fbtrace_id, error_data, retry_after_header, body) ==
    IF code.t \in {"map", "list"} THEN Raise("TypeError")
    ELSE
    LET category == categorize_error(IF code.t = "int" THEN Some(code.n) ELSE Absent,
                                     Some(http_status))
        retry    == get_retry_hint(category, retry_after_header)
    IN  IF retry.kind = "raise" THEN Raise(retry.exc)
        ELSE [kind |-> "GraphApiError", exc |-> "GraphApiError",
              message |-> message, http_status |-> http_status, code |-> code,
              type |-> type_, details |-> details, error_subcode |-> error_subcode,
              fbtrace_id |-> fbtrace_id, error_data |-> error_data, raw |-> body,
              category |-> category, retry |-> retry]

\* A slip that reads the error fields from the top of the body only.
from_response_flat_only(http_status, body, retry_after_header) ==
    IF body.t # "map" THEN Raise("AttributeError")
    ELSE GraphApiError(
            Get(body, ErrorKey.message, JStr(<<"Unknown Graph API error">>)),
            http_status,
            Get(body, ErrorKey.code, JNull),
            Get(body, ErrorKey.type, JStr(<<>>)),
            (IF Truthy(Get(body, ErrorKey.error_user_msg, JNull))
             THEN Get(body, ErrorKey.error_user_msg, JNull)
             ELSE Get(body, ErrorKey.details, JNull)),
            Get(body, ErrorKey.error_subcode, JNull),
            Get(body, ErrorKey.fbtrace_id, JNull),
            Get(body, ErrorKey.error_data, JNull),
            retry_after_header,
            body)

\* GraphApiError.from_response. body.get and err.get exist only on a dict:
\* on any other value the attribute lookup raises AttributeError.
from_response(http_status, body, retry_after_header) ==
    IF body.t # "map" THEN Raise("AttributeError")
    ELSE
    LET err == Get(body, ErrorKey.error, body)
    IN  IF err.t # "map" THEN Raise("AttributeError")
        ELSE GraphApiError(
                Get(err, ErrorKey.message, JStr(<<"Unknown Graph API error">>)),
                http_status,
                Get(err, ErrorKey.code, JNull),
                Get(err, ErrorKey.type, JStr(<<>>)),
                (IF Truthy(Get(err, ErrorKey.error_user_msg, JNull))
                 THEN Get(err, ErrorKey.error_user_msg, JNull)
                 ELSE Get(err, ErrorKey.details, JNull)),
                Get(err, ErrorKey.error_subcode, JNull),
                Get(err, ErrorKey.fbtrace_id, JNull),
                Get(err, ErrorKey.error_data, JNull),
                retry_after_header,
                body)

is_auth_error(e) == e.category = "authorization"
is_rate_limit(e) == e.category = "throttling"
is_template_error(e) == e.category = "template"
requires_token_refresh(e) == e.retry.action = "refresh_token"

-----------------------------------------------------------------------------
(* Calls of the errors/ functions, with arguments drawn from these sets.   *)

UnknownCodes == {1, 99999}
Codes == {Absent} \cup {Some(c) : c \in DOMAIN _CODE_TO_CATEGORY \cup UnknownCodes}
Statuses == {Absent} \cup {Some(n) : n \in {0, 200, 400, 401, 499, 500, 502}}

HeaderStrings ==
    { <<"3", "0">>, <<"1", ".", "5">>, <<"0">>, <<"-", "5">>, <<"0", ".", "2", "5">>,
      <<"a", "b", "c">>, <<>>, <<"n", "a", "n">>, <<"i", "n", "f">>, <<"-", "i", "n", "f">> }
Headers == {NoStr} \cup {Some(h) : h \in HeaderStrings}

NoErrCall == [fn |-> "none", code |-> Absent, http_status |-> Absent,
              category |-> "", header |-> NoStr]

ErrIdle == errCall = NoErrCall /\ errOut = [kind |-> "none"]

CallCategorizeError ==
    \E code \in Codes, http_status \in Statuses :
        /\ errCall' = [fn |-> "categorize_error", code |-> code,
                       http_status |-> http_status, category |-> "", header |-> NoStr]
        /\ errOut' = [kind |-> "return", category |-> categorize_error(code, http_status)]
        /\ UNCHANGED <<cliVars, whVars, restVars>>

CallGetRetryHint ==
    \E category \in ErrorCategory, header \in Headers :
        /\ errCall' = [fn |-> "get_retry_hint", code |-> Absent, http_status |-> Absent,
                       category |-> category, header |-> header]
        /\ errOut' = get_retry_hint(category, header)
        /\ UNCHANGED <<cliVars, whVars, restVars>>

-----------------------------------------------------------------------------
(* client.py: WhatsAppClient over an httpx.AsyncClient.                    *)
(* A response is what the httpx client hands back for one request:         *)
(* failed = TRUE when it raises instead (network failure, closed client).  *)

MaxTeardowns == 2

AccessToken == <<"tok">>
H_Authorization == JStr(<<"Authorization">>)
H_XTrace        == JStr(<<"X-Trace">>)
Bearer(token)   == JStr(<<"Bearer ">> \o token)

\* WhatsAppClient._auth_headers
_auth_headers == <<Item(H_Authorization, Bearer(AccessToken))>>

\* {**a, **b} on the items of two dicts
Merged(a, b) ==
    DictOf([i \in 1..(Len(a) + Len(b)) |-> IF i <= Len(a) THEN a[i].k ELSE b[i - Len(a)].k],
           [i \in 1..(Len(a) + Len(b)) |-> IF i <= Len(a) THEN a[i].v ELSE b[i - Len(a)].v])

\* A slip that sends the caller's headers alone when there are some.
MergeHeaders_caller_only(base, headers) ==
    JMap(IF Truthy(headers) THEN headers.kv ELSE base)

\* {**base, **(headers or {})}
MergeHeaders(base, headers) ==
    JMap(Merged(base, IF Truthy(headers) THEN headers.kv ELSE <<>>))

Return(value) == [kind |-> "return", value |-> value]

Content(empty, json, value) == [empty |-> empty, json |-> json, value |-> value]
Response(status, content, retry_after) ==
    [failed |-> FALSE, status |-> status, content |-> content, retry_after |-> retry_after]
FailedResponse ==
    [failed |-> TRUE, status |-> 0, content |-> Content(TRUE, FALSE, JNull), retry_after |-> NoStr]

HttpRequest(fn, method, target, headers, resp) ==
    [fn |-> fn, method |-> method, target |-> target, headers |-> headers, resp |-> resp]

\* What request() does with the response, after self._http.request(...).
HandleResponse(raw_response, resp) ==
    IF resp.failed THEN Raise("TransportError")
    ELSE IF raw_response THEN Return(resp)
    ELSE IF ~resp.content.empty /\ ~resp.content.json THEN Raise("JSONDecodeError")
    ELSE
    LET body == IF resp.content.empty THEN JMap(<<>>) ELSE resp.content.value
    IN  IF resp.status >= 400
        THEN LET e == from_response(resp.status, body, resp.retry_after)
             IN  IF e.kind = "raise" THEN e
                 ELSE [kind |-> "raise", exc |-> "GraphApiError", error |-> e]
        ELSE Return(to_snake_deep(body))

\* WhatsAppClient.request: the one HTTP request it issues, and its outcome.
request(method, headers, raw_response, resp) ==
    [http |-> HttpRequest("request", method, "api", MergeHeaders(_auth_headers, headers), resp),
     out  |-> HandleResponse(raw_response, resp)]

\* WhatsAppClient.fetch_raw
fetch_raw(headers, resp) ==
    [http |-> HttpRequest("fetch_raw", "GET", "url",
                          JMap(IF Truthy(headers) THEN headers.kv ELSE <<>>), resp),
     out  |-> IF resp.failed THEN Raise("TransportError") ELSE Return(resp)]

\* WhatsAppClient.fetch_authenticated
fetch_authenticated(headers, resp) ==
    [http |-> HttpRequest("fetch_authenticated", "GET", "url",
                          MergeHeaders(_auth_headers, headers), resp),
     out  |-> IF resp.failed THEN Raise("TransportError") ELSE Return(resp)]

\* A slip that closes a client the caller supplied.
aclose_always(owns, closed) == TRUE

\* WhatsAppClient.aclose: is_closed of self._http afterwards.
aclose(owns, closed) == IF owns THEN TRUE ELSE closed

-----------------------------------------------------------------------------
(* resources/media.py                                                      *)

\* The fields of MediaMetadata.
MediaKey ==
    [ url |-> JStr(<<"u", "r", "l">>),
      id |-> JStr(<<"i", "d">>),
      sha256 |-> JStr(<<"s", "h", "a", "2", "5", "6">>),
      mime_type |-> JStr(<<"m", "i", "m", "e", "_", "t", "y", "p", "e">>),
      file_size |-> JStr(<<"f", "i", "l", "e", "_", "s", "i", "z", "e">>) ]

\* MediaMetadata.model_validate on the snake_case response of get(media_id):
\* url, mime_type, sha256, file_size and id are required strings.
MediaMetadataValid(meta) ==
    /\ meta.t = "map"
    /\ \A k \in {MediaKey.url, MediaKey.mime_type, MediaKey.sha256, MediaKey.file_size, MediaKey.id} :
          HasKey(meta, k) /\ ValueAt(meta, k).t = "str"

\* resp.raise_for_status(); return resp.content
RaiseForStatus(resp) ==
    IF resp.status >= 200 /\ resp.status < 300
    THEN Return(resp.content.value) ELSE Raise("HTTPStatusError")

\* A slip that falls back to the authenticated fetch after any failure status.
NeedsAuthRetry_any_error(resp) == resp.status >= 400

\* resp.status_code == 401 or resp.status_code == 403
NeedsAuthRetry(resp) == resp.status = 401 \/ resp.status = 403

-----------------------------------------------------------------------------
(* The callers of the client and the HTTP peer.                            *)

CallerHeaders ==
    { JNull,
      JMap(<<>>),
      JMap(<<Item(H_XTrace, JStr(<<"1">>))>>),
      JMap(<<Item(H_Authorization, JStr(<<"Bearer other">>))>>),
      JMap(<<Item(H_XTrace, JStr(<<"1">>)), Item(H_Authorization, JStr(<<"Basic x">>))>>) }

ApiContents ==
    LET wrapped(code) ==
            JMap(<<Item(ErrorKey.error,
                        JMap(<<Item(ErrorKey.message, JStr(<<"Bad param">>)),
                               Item(ErrorKey.code, JInt(code)),
                               Item(ErrorKey.type, JStr(<<"OAuthException">>))>>))>>)
        flat(code) ==
            JMap(<<Item(ErrorKey.message, JStr(<<"Invalid token">>)),
                   Item(ErrorKey.code, JInt(code))>>)
        error_string == JMap(<<Item(ErrorKey.error, JStr(<<"boom">>))>>)
        error_null   == JMap(<<Item(ErrorKey.error, JNull)>>)
        camel ==
            JMap(<<Item(JStr(<<"m", "e", "s", "s", "a", "g", "i", "n", "g",
                               "P", "r", "o", "d", "u", "c", "t">>),
                        JStr(<<"whatsapp">>))>>)
        metadata ==
            JMap(<<Item(MediaKey.url, JStr(<<"https://cdn/file">>)),
                   Item(MediaKey.mime_type, JStr(<<"image/jpeg">>)),
                   Item(MediaKey.sha256, JStr(<<"abc">>)),
                   Item(MediaKey.file_size, JStr(<<"100">>)),
                   Item(MediaKey.id, JStr(<<"media123">>))>>)
    IN  { Content(TRUE, FALSE, JNull), Content(FALSE, FALSE, JNull) }
        \cup { Content(FALSE, TRUE, v) :
                 v \in { JMap(<<>>), wrapped(100), wrapped(4), flat(190),
                         error_string, error_null, camel, metadata } }

ApiStatuses == {200, 399, 400, 401, 500}
ApiRetryAfter == {NoStr, Some(<<"3", "0">>), Some(<<"i", "n", "f">>)}
ApiResponses ==
    { Response(st, c, ra) : st \in ApiStatuses, c \in ApiContents, ra \in ApiRetryAfter }

UrlStatuses == {200, 401, 403, 404, 500}
UrlBytes == {<<"bytes-a">>, <<"bytes-b">>}
UrlResponses ==
    { Response(st, Content(FALSE, FALSE, JStr(b)), NoStr) : st \in UrlStatuses, b \in UrlBytes }

\* The httpx client raises on every request once it is closed.
Answers(pool) == IF http_closed THEN {FailedResponse} ELSE pool \cup {FailedResponse}

NoCliCall == [op |-> "none", pc |-> "done", headers |-> JNull, raw_response |-> FALSE,
              use_auth |-> FALSE]
Idle == cliCall = NoCliCall

CliInit ==
    /\ owns_client \in BOOLEAN
    /\ http_closed = FALSE
    /\ teardowns = 0
    /\ cliCall = NoCliCall
    /\ sent = <<>>
    /\ cliOut = [kind |-> "none"]

CliIdle ==
    /\ owns_client = TRUE /\ http_closed = FALSE /\ teardowns = 0
    /\ cliCall = NoCliCall /\ sent = <<>> /\ cliOut = [kind |-> "none"]

Finish(op, headers, raw_response, use_auth, call) ==
    /\ cliCall' = [op |-> op, pc |-> "done", headers |-> headers,
                   raw_response |-> raw_response, use_auth |-> use_auth]
    /\ sent' = <<call.http>>
    /\ cliOut' = call.out
    /\ UNCHANGED <<owns_client, http_closed, teardowns, errVars, whVars, restVars>>

\* client.request(method, path, headers=..., raw_response=...)
Request ==
    /\ Idle
    /\ \E method \in {"GET", "POST", "DELETE"}, headers \in CallerHeaders,
          raw_response \in BOOLEAN, resp \in Answers(ApiResponses) :
       \E call \in {request(method, headers, raw_response, resp)} :
          Finish("request", headers, raw_response, FALSE, call)

\* client.get / client.post / client.delete
GetPostDelete ==
    /\ Idle
    /\ \E method \in {"GET", "POST", "DELETE"}, resp \in Answers(ApiResponses) :
       \E call \in {request(method, JNull, FALSE, resp)} :
          Finish(method, JNull, FALSE, FALSE, call)

FetchRaw ==
    /\ Idle
    /\ \E headers \in CallerHeaders, resp \in Answers(UrlResponses) :
       \E call \in {fetch_raw(headers, resp)} :
          Finish("fetch_raw", headers, TRUE, FALSE, call)

FetchAuthenticated ==
    /\ Idle
    /\ \E headers \in CallerHeaders, resp \in Answers(UrlResponses) :
       \E call \in {fetch_authenticated(headers, resp)} :
          Finish("fetch_authenticated", headers, TRUE, TRUE, call)

\* await client.aclose(), at any time
Aclose ==
    /\ teardowns < MaxTeardowns
    /\ teardowns' = teardowns + 1
    /\ http_closed' = aclose(owns_client, http_closed)
    /\ UNCHANGED <<owns_client, cliCall, sent, cliOut, errVars, whVars, restVars>>

\* leaving `async with client:` (__aexit__ awaits self.aclose())
AExit == cliCall.pc = "done" /\ Aclose

\* media.download(media_id, use_auth=...) up to its first await
DownloadStart ==
    /\ Idle
    /\ \E use_auth \in BOOLEAN :
          cliCall' = [op |-> "download", pc |-> "get", headers |-> JNull,
                      raw_response |-> FALSE, use_auth |-> use_auth]
    /\ sent' = <<>>
    /\ cliOut' = [kind |-> "none"]
    /\ UNCHANGED <<owns_client, http_closed, teardowns, errVars, whVars, restVars>>

\* meta = await self.get(media_id)
DownloadGet ==
    /\ cliCall.op = "download" /\ cliCall.pc = "get"
    /\ \E resp \in Answers(ApiResponses) :
       \E call \in {request("GET", JNull, FALSE, resp)} :
          LET ok == call.out.kind = "return" /\ MediaMetadataValid(call.out.value)
          IN  /\ sent' = Append(sent, call.http)
              /\ cliOut' = IF call.out.kind = "raise" THEN call.out
                           ELSE IF ok THEN cliOut ELSE Raise("ValidationError")
              /\ cliCall' = [cliCall EXCEPT !.pc = IF ok THEN "fetch" ELSE "done"]
    /\ UNCHANGED <<owns_client, http_closed, teardowns, errVars, whVars, restVars>>

\* resp = await fetch_authenticated(meta.url) or fetch_raw(meta.url); when no
\* retry with auth follows, raise_for_status and return resp.content
DownloadFetch ==
    /\ cliCall.op = "download" /\ cliCall.pc = "fetch"
    /\ \E resp \in Answers(UrlResponses) :
       \E call \in {IF cliCall.use_auth THEN fetch_authenticated(JNull, resp)
                      ELSE fetch_raw(JNull, resp)} :
          LET again == call.out.kind = "return" /\ NeedsAuthRetry(resp)
          IN  /\ sent' = Append(sent, call.http)
              /\ cliOut' = IF call.out.kind = "raise" THEN call.out
                           ELSE IF again THEN cliOut ELSE RaiseForStatus(resp)
              /\ cliCall' = [cliCall EXCEPT !.pc = IF again THEN "retry_with_auth" ELSE "done"]
    /\ UNCHANGED <<owns_client, http_closed, teardowns, errVars, whVars, restVars>>

\* resp = await fetch_authenticated(meta.url); raise_for_status; return
DownloadRetryWithAuth ==
    /\ cliCall.op = "download" /\ cliCall.pc = "retry_with_auth"
    /\ \E resp \in Answers(UrlResponses) :
       \E call \in {fetch_authenticated(JNull, resp)} :
              /\ sent' = Append(sent, call.http)
              /\ cliOut' = IF call.out.kind = "raise" THEN call.out ELSE RaiseForStatus(resp)
              /\ cliCall' = [cliCall EXCEPT !.pc = "done"]
    /\ UNCHANGED <<owns_client, http_closed, teardowns, errVars, whVars, restVars>>

\* The caller drops the outcome of a finished call; the client is unchanged.
Forget ==
    /\ cliCall.pc = "done" /\ cliCall.op # "none"
    /\ cliCall' = NoCliCall /\ sent' = <<>> /\ cliOut' = [kind |-> "none"]
    /\ UNCHANGED <<owns_client, http_closed, teardowns, errVars, whVars, restVars>>

-----------------------------------------------------------------------------
(* webhooks/normalize.py                                                   *)
(* The payload is its "entry" list: each entry is the list of its changes  *)
(* (entry.get("changes", [])), each change a map.                          *)

MaxChanges == 3

\* The keys normalize_webhook and the models it validates read.
WebhookKey ==
    [ field |-> JStr(<<"f", "i", "e", "l", "d">>),
      value |-> JStr(<<"v", "a", "l", "u", "e">>),
      metadata |-> JStr(<<"m", "e", "t", "a", "d", "a", "t", "a">>),
      contacts |-> JStr(<<"c", "o", "n", "t", "a", "c", "t", "s">>),
      messages |-> JStr(<<"m", "e", "s", "s", "a", "g", "e", "s">>),
      statuses |-> JStr(<<"s", "t", "a", "t", "u", "s", "e", "s">>),
      status |-> JStr(<<"s", "t", "a", "t", "u", "s">>),
      timestamp |-> JStr(<<"t", "i", "m", "e", "s", "t", "a", "m", "p">>),
      from |-> JStr(<<"f", "r", "o", "m">>),
      from_ |-> JStr(<<"f", "r", "o", "m", "_">>),
      wa_id |-> JStr(<<"w", "a", "_", "i", "d">>),
      phone_number_id |-> JStr(<<"p", "h", "o", "n", "e", "_", "n", "u", "m", "b", "e", "r", "_", "i", "d">>),
      display_phone_number |-> JStr(<<"d", "i", "s", "p", "l", "a", "y", "_", "p", "h", "o", "n", "e", "_", "n", "u", "m", "b", "e", "r">>),
      id |-> JStr(<<"i", "d">>),
      type |-> JStr(<<"t", "y", "p", "e">>) ]

F_messages == JStr(<<"messages">>)

\* d.pop(key, None) on the items of a dict
Without(kv, key) == SelectSeq(kv, LAMBDA it : it.k # key)

\* A slip that replaces the list under the field instead of appending to it.
RawAppend_overwrite(rawItems, field, value) ==
    DictOf([i \in 1..(Len(rawItems) + 1) |->
                IF i <= Len(rawItems) THEN rawItems[i].k ELSE field],
           [i \in 1..(Len(rawItems) + 1) |->
                IF i <= Len(rawItems) THEN rawItems[i].v ELSE JList(<<value>>)])

\* raw.setdefault(field, []).append(value)
RawAppend(rawItems, field, value) ==
    LET old == IF \E i \in 1..Len(rawItems) : rawItems[i].k = field
               THEN rawItems[CHOOSE i \in 1..Len(rawItems) : rawItems[i].k = field].v.items
               ELSE <<>>
    IN  DictOf([i \in 1..(Len(rawItems) + 1) |->
                    IF i <= Len(rawItems) THEN rawItems[i].k ELSE field],
               [i \in 1..(Len(rawItems) + 1) |->
                    IF i <= Len(rawItems) THEN rawItems[i].v ELSE JList(Append(old, value))])

\* normalized = to_snake_deep(msg);
\* if "from" in normalized: normalized.setdefault("from_", normalized.pop("from", None))
NormalizedMessage(msg) ==
    LET n == to_snake_deep(msg)
    IN  IF ~HasKey(n, WebhookKey.from) THEN n
        ELSE IF HasKey(n, WebhookKey.from_) THEN JMap(Without(n.kv, WebhookKey.from))
        ELSE JMap(Append(Without(n.kv, WebhookKey.from), Item(WebhookKey.from_, ValueAt(n, WebhookKey.from))))

\* A slip that lets a message without an id through.
WebhookMessageValid_id_optional(m) ==
    /\ m.t = "map"
    /\ \A k \in {WebhookKey.type, WebhookKey.timestamp} : HasKey(m, k) /\ ValueAt(m, k).t = "str"

\* WebhookMessage.model_validate: id, type and timestamp are required strings.
WebhookMessageValid(m) ==
    /\ m.t = "map"
    /\ \A k \in {WebhookKey.id, WebhookKey.type, WebhookKey.timestamp} : HasKey(m, k) /\ ValueAt(m, k).t = "str"

\* MessageStatusUpdate.model_validate: id, status and timestamp are required strings.
MessageStatusUpdateValid(st) ==
    /\ st.t = "map"
    /\ \A k \in {WebhookKey.id, WebhookKey.status, WebhookKey.timestamp} : HasKey(st, k) /\ ValueAt(st, k).t = "str"

OptionalStr(x) == x.t \in {"null", "str"}

\* NormalizedWebhook(...): phone_number_id and display_phone_number are
\* str | None, contacts is list[dict], raw is dict[str, list[dict]].
NormalizedWebhookValid(pid, dpn, contacts, rawItems) ==
    /\ OptionalStr(pid) /\ OptionalStr(dpn)
    /\ \A i \in 1..Len(contacts) : contacts[i].t = "map"
    /\ \A i \in 1..Len(rawItems) :
          /\ rawItems[i].k.t = "str"
          /\ \A j \in 1..Len(rawItems[i].v.items) : rawItems[i].v.items[j].t = "map"

Changes(entry) == entry
HasChange(e, c) == e \in 1..Len(payload) /\ c \in 1..Len(Changes(payload[e]))

\* The position of the inner loop after (e, c): the next change of the entry,
\* else the first change of a later entry, else past the last entry.
NextPosition(e, c) ==
    IF e \in 1..Len(payload) /\ c < Len(Changes(payload[e])) THEN <<e, c + 1>>
    ELSE LET later == {x \in (e + 1)..Len(payload) : Len(Changes(payload[x])) > 0}
         IN  IF later = {} THEN <<Len(payload) + 1, 1>>
             ELSE <<CHOOSE x \in later : \A y \in later : x <= y, 1>>

\* A slip that puts the items of a change before those collected so far.
Extend_in_front(list, items) == items \o list

\* list.append(item) for each item, in order
Extend(list, items) == list \o items

ListAt(m, key) == IF HasKey(m, key) THEN ValueAt(m, key).items ELSE <<>>

\* One iteration of `for change in changes`.
NormalizeChange ==
    /\ whOut = "running" /\ HasChange(ei, ci)
    /\ \E change \in {Changes(payload[ei])[ci]} :
       \E value \in {Get(change, WebhookKey.value, JMap(<<>>))}, field \in {Get(change, WebhookKey.field, JStr(<<>>))} :
          IF field # F_messages
          THEN /\ raw' = RawAppend(raw, field, to_snake_deep(value))
               /\ whOut' = "running"
               /\ UNCHANGED <<all_messages, all_statuses, all_contacts,
                              phone_number_id, display_phone_number>>
          ELSE IF value.t # "map"
          THEN /\ whOut' = "raised"
               /\ UNCHANGED <<all_messages, all_statuses, all_contacts, raw,
                              phone_number_id, display_phone_number>>
          ELSE \E metadata \in {Get(value, WebhookKey.metadata, JMap(<<>>))},
                  msgs \in {[i \in 1..Len(ListAt(value, WebhookKey.messages)) |->
                                NormalizedMessage(ListAt(value, WebhookKey.messages)[i])]},
                  sts \in {[i \in 1..Len(ListAt(value, WebhookKey.statuses)) |->
                                to_snake_deep(ListAt(value, WebhookKey.statuses)[i])]} :
               /\ IF ~Truthy(phone_number_id)
                  THEN /\ phone_number_id' = Get(metadata, WebhookKey.phone_number_id, JNull)
                       /\ display_phone_number' = Get(metadata, WebhookKey.display_phone_number, JNull)
                  ELSE UNCHANGED <<phone_number_id, display_phone_number>>
               /\ all_contacts' = Extend(all_contacts,
                      [i \in 1..Len(ListAt(value, WebhookKey.contacts)) |->
                          to_snake_deep(ListAt(value, WebhookKey.contacts)[i])])
               /\ all_messages' = Extend(all_messages, msgs)
               /\ all_statuses' = Extend(all_statuses, sts)
               /\ whOut' = IF /\ \A i \in 1..Len(msgs) : WebhookMessageValid(msgs[i])
                              /\ \A i \in 1..Len(sts) : MessageStatusUpdateValid(sts[i])
                           THEN "running" ELSE "raised"
               /\ raw' = raw
    /\ ei' = NextPosition(ei, ci)[1]
    /\ ci' = NextPosition(ei, ci)[2]
    /\ UNCHANGED <<payload, errVars, cliVars, restVars>>

\* return NormalizedWebhook(...), after the last entry
NormalizeReturn ==
    /\ whOut = "running" /\ ~HasChange(ei, ci)
    /\ whOut' = IF NormalizedWebhookValid(phone_number_id, display_phone_number,
                                          all_contacts, raw)
                THEN "returned" ELSE "raised"
    /\ UNCHANGED <<payload, ei, ci, all_messages, all_statuses, all_contacts, raw,
                   phone_number_id, display_phone_number, errVars, cliVars, restVars>>

-----------------------------------------------------------------------------
(* events/dispatcher.py                                                    *)
(* A validated WebhookMessage or MessageStatusUpdate is the map of its     *)
(* fields; the dispatcher never looks inside a key, so keys are tokens.    *)

Attr(name) == JStr(<<name>>)
Field(obj, name) == Get(obj, Attr(name), JNull)
EmptyStr == JStr(<<>>)

\* x or default
Or(x, default) == IF Truthy(x) THEN x ELSE default

\* model_dump(exclude_none=True)
ExcludeNone(obj) == JMap(SelectSeq(obj.kv, LAMBDA it : it.v.t # "null"))

\* json.loads on the strings the model sends as response_json
json_loads(text) ==
    CASE text = <<"{\"screen\": \"DONE\"}">> ->
             Return(JMap(<<Item(Attr("screen"), JStr(<<"DONE">>))>>))
      [] text = <<"7">> -> Return(JInt(7))
      [] OTHER -> Raise("JSONDecodeError")

\* A slip that passes the sender on as it is, None included.
_base_kwargs_sender_as_is(msg, pid) ==
    LET context == Field(msg, "context")
        ctx == IF Truthy(context) THEN ExcludeNone(context) ELSE JNull
    IN  [phone_number_id |-> pid,
         message_id      |-> Field(msg, "id"),
         timestamp       |-> Field(msg, "timestamp"),
         from_number     |-> Field(msg, "from_"),
         context         |-> Or(ctx, JNull)]

_base_kwargs(msg, pid) ==
    LET context == Field(msg, "context")
        ctx == IF Truthy(context) THEN ExcludeNone(context) ELSE JNull
    IN  [phone_number_id |-> pid,
         message_id      |-> Field(msg, "id"),
         timestamp       |-> Field(msg, "timestamp"),
         from_number     |-> Or(Field(msg, "from_"), EmptyStr),
         context         |-> Or(ctx, JNull)]

Event(kind, base, data) == Return([kind |-> kind, base |-> base, data |-> data])

\* reply = interactive.get(itype, {}), on which reply.get is then called
ReplyOf(interactive, itype) ==
    LET reply == Get(interactive, Attr(itype), JMap(<<>>))
    IN  IF reply.t = "map" THEN Return(reply) ELSE Raise("AttributeError")

_map_interactive(msg, base) ==
    LET interactive == Or(Field(msg, "interactive"), JMap(<<>>))
        itype == Get(interactive, Attr("type"), EmptyStr)
    IN  IF itype \in {Attr("button_reply"), Attr("list_reply"), Attr("nfm_reply")}
        THEN LET got == ReplyOf(interactive, itype.s[1])
                 reply == got.value
             IN  IF got.kind = "raise" THEN got
                 ELSE IF itype = Attr("button_reply")
                 THEN Event("ButtonReply", base,
                            [button_id    |-> Get(reply, Attr("id"), EmptyStr),
                             button_title |-> Get(reply, Attr("title"), EmptyStr)])
                 ELSE IF itype = Attr("list_reply")
                 THEN Event("ListReply", base,
                            [list_id          |-> Get(reply, Attr("id"), EmptyStr),
                             list_title       |-> Get(reply, Attr("title"), EmptyStr),
                             list_description |-> Field(reply, "description")])
                 ELSE LET response_json == Get(reply, Attr("response_json"), JMap(<<>>))
                          loaded == json_loads(response_json.s)
                      IN  Event("FlowResponse", base,
                                [response_json |->
                                     IF response_json.t # "str" THEN response_json
                                     ELSE IF loaded.kind = "return" THEN loaded.value
                                     ELSE JMap(<<>>),
                                 flow_token |-> Field(reply, "flow_token")])
        ELSE Event("UnknownMessageReceived", base,
                   [raw_type |-> <<"interactive:">> \o itype.s, raw_data |-> interactive])

_map_message(msg, pid) ==
    LET base == _base_kwargs(msg, pid)
        type == Field(msg, "type").s
        sub  == IF type = <<>> THEN JMap(<<>>) ELSE Or(Field(msg, type[1]), JMap(<<>>))
        Str(name)  == Get(sub, Attr(name), EmptyStr)
        Opt(name)  == Field(sub, name)
    IN  CASE type = <<"text">> -> Event("TextReceived", base, [body |-> Str("body")])
          [] type = <<"image">> ->
                Event("ImageReceived", base,
                      [image_id |-> Str("id"), mime_type |-> Str("mime_type"),
                       sha256 |-> Str("sha256"), caption |-> Opt("caption")])
          [] type = <<"video">> ->
                Event("VideoReceived", base,
                      [video_id |-> Str("id"), mime_type |-> Str("mime_type"),
                       sha256 |-> Str("sha256"), caption |-> Opt("caption")])
          [] type = <<"audio">> ->
                Event("AudioReceived", base,
                      [audio_id |-> Str("id"), mime_type |-> Str("mime_type"),
                       sha256 |-> Str("sha256"),
                       voice |-> Get(sub, Attr("voice"), JBool(FALSE))])
          [] type = <<"document">> ->
                Event("DocumentReceived", base,
                      [document_id |-> Str("id"), mime_type |-> Str("mime_type"),
                       sha256 |-> Str("sha256"), filename |-> Opt("filename"),
                       caption |-> Opt("caption")])
          [] type = <<"sticker">> ->
                Event("StickerReceived", base,
                      [sticker_id |-> Str("id"), mime_type |-> Str("mime_type"),
                       animated |-> Get(sub, Attr("animated"), JBool(FALSE))])
          [] type = <<"location">> ->
                Event("LocationReceived", base,
                      [latitude |-> Get(sub, Attr("latitude"), JInt(0)),
                       longitude |-> Get(sub, Attr("longitude"), JInt(0)),
                       name |-> Opt("name"), address |-> Opt("address")])
          [] type = <<"contacts">> ->
                Event("ContactsReceived", base,
                      [contacts |-> Or(Field(msg, "contacts"), JList(<<>>))])
          [] type = <<"reaction">> ->
                Event("ReactionReceived", base,
                      [emoji |-> Opt("emoji"), reacted_message_id |-> Str("message_id")])
          [] type = <<"interactive">> -> _map_interactive(msg, base)
          [] type = <<"order">> ->
                Event("OrderReceived", base,
                      [catalog_id |-> Str("catalog_id"),
                       product_items |-> Get(sub, Attr("product_items"), JList(<<>>)),
                       order_text |-> Opt("order_text")])
          [] OTHER ->
                Event("UnknownMessageReceived", base,
                      [raw_type |-> type, raw_data |-> ExcludeNone(msg)])

\* A slip that reports a read message as delivered.
StatusEventKind_read_as_delivered(status) ==
    CASE Field(status, "status") = Attr("sent")      -> "MessageSent"
      [] Field(status, "status") = Attr("delivered") -> "MessageDelivered"
      [] Field(status, "status") = Attr("read")      -> "MessageDelivered"
      [] Field(status, "status") = Attr("failed")    -> "MessageFailed"
      [] OTHER                                       -> "MessageSent"

\* match status.status
StatusEventKind(status) ==
    CASE Field(status, "status") = Attr("sent")      -> "MessageSent"
      [] Field(status, "status") = Attr("delivered") -> "MessageDelivered"
      [] Field(status, "status") = Attr("read")      -> "MessageRead"
      [] Field(status, "status") = Attr("failed")    -> "MessageFailed"
      [] OTHER                                       -> "MessageSent"

\* The event dispatch_webhook emits for a status update.
StatusEvent(status, pid) ==
    [kind |-> StatusEventKind(status),
     base |-> [phone_number_id |-> pid,
               message_id      |-> Field(status, "id"),
               timestamp       |-> Field(status, "timestamp"),
               recipient_id    |-> Or(Field(status, "recipient_id"), EmptyStr),
               conversation    |-> Field(status, "conversation"),
               pricing         |-> Field(status, "pricing")],
     data |-> IF StatusEventKind(status) = "MessageFailed"
              THEN [errors |-> Or(Field(status, "errors"), JList(<<>>))]
              ELSE [errors |-> JNull]]

MaxItems == 3

\* Validated messages: every known type with its sub-map and without it,
\* interactive replies whose entry is a map, null or a string, and types
\* outside the known set.
MapMessagePool ==
    LET Msg(id, type, extra) ==
            JMap(<<Item(Attr("id"), JStr(<<id>>)), Item(Attr("type"), Attr(type)),
                   Item(Attr("timestamp"), JStr(<<"1700000000">>)),
                   Item(Attr("from_"), JStr(<<"5511">>))>> \o extra)
        Media(id) ==
            JMap(<<Item(Attr("id"), JStr(<<id>>)), Item(Attr("mime_type"), JStr(<<"image/jpeg">>)),
                   Item(Attr("sha256"), JStr(<<"abc">>)), Item(Attr("caption"), JStr(<<"hi">>)),
                   Item(Attr("voice"), JBool(TRUE)), Item(Attr("filename"), JStr(<<"a.pdf">>)),
                   Item(Attr("animated"), JBool(TRUE))>>)
        With(type, sub) == Msg("wamid.1", type, <<Item(Attr(type), sub)>>)
        Interactive(items) == With("interactive", JMap(items))
        Reply(itype, reply) ==
            Interactive(<<Item(Attr("type"), Attr(itype)), Item(Attr(itype), reply)>>)
        Answer == JMap(<<Item(Attr("id"), JStr(<<"btn1">>)), Item(Attr("title"), JStr(<<"Yes">>))>>)
        Flow(response_json) ==
            JMap(<<Item(Attr("response_json"), response_json),
                   Item(Attr("flow_token"), JStr(<<"tok1">>))>>)
    IN  { Msg("wamid.0", type, <<>>) :
            type \in {"text", "image", "video", "audio", "document", "sticker", "location",
                      "contacts", "reaction", "interactive", "order", "system", "button"} }
        \cup { With(type, Media("m1")) :
                 type \in {"image", "video", "audio", "document", "sticker"} }
        \cup { With("text", JMap(<<Item(Attr("body"), JStr(<<"Hello">>))>>)),
               With("location", JMap(<<Item(Attr("latitude"), JInt(12)),
                                       Item(Attr("longitude"), JInt(34)),
                                       Item(Attr("name"), JStr(<<"Cafe">>))>>)),
               With("contacts", JList(<<JMap(<<Item(Attr("name"), JStr(<<"Ann">>))>>)>>)),
               With("reaction", JMap(<<Item(Attr("emoji"), JStr(<<"+1">>)),
                                       Item(Attr("message_id"), JStr(<<"wamid.5">>))>>)),
               With("order", JMap(<<Item(Attr("catalog_id"), JStr(<<"cat1">>)),
                                    Item(Attr("order_text"), JStr(<<"two">>))>>)),
               Msg("wamid.2", "text",
                   <<Item(Attr("context"), JMap(<<Item(Attr("id"), JStr(<<"wamid.1">>)),
                                                  Item(Attr("from_"), JNull)>>))>>),
               JMap(<<Item(Attr("id"), JStr(<<"wamid.3">>)), Item(Attr("type"), Attr("text")),
                      Item(Attr("timestamp"), JStr(<<"1700000000">>)),
                      Item(Attr("context"), JMap(<<Item(Attr("id"), JNull)>>))>>),
               Interactive(<<Item(Attr("type"), Attr("product"))>>),
               Interactive(<<Item(Attr("type"), Attr("button_reply"))>>),
               Reply("nfm_reply", Flow(JStr(<<"{\"screen\": \"DONE\"}">>))),
               Reply("nfm_reply", Flow(JStr(<<"7">>))),
               Reply("nfm_reply", Flow(JStr(<<"not json">>))),
               Reply("nfm_reply", Flow(JMap(<<Item(Attr("screen"), JStr(<<"A">>))>>))),
               Reply("nfm_reply", JMap(<<>>)) }
        \cup { Reply(itype, reply) :
                 itype \in {"button_reply", "list_reply", "nfm_reply"},
                 reply \in {Answer, JNull, JStr(<<"x">>)} }

PhoneNumberIds == {JNull, JStr(<<"123">>)}

\* A call of _map_message on its own, on the arguments drawn at the start.
MapMessageCalls ==
    { [fn |-> "_map_message", msg |-> msg, pid |-> pid] :
        msg \in MapMessagePool, pid \in PhoneNumberIds }

CallMapMessage ==
    /\ fnCall.fn = "_map_message" /\ fnOut.kind = "none"
    /\ fnOut' = _map_message(fnCall.msg, fnCall.pid)
    /\ UNCHANGED <<fnCall, errVars, cliVars, whVars, dspVars, flVars>>

\* The messages and statuses of the webhooks handed to dispatch_webhook.
DispatchMessagePool ==
    { m \in MapMessagePool :
        \/ Field(m, "id") = JStr(<<"wamid.0">>) /\ Field(m, "type") \in {Attr("text"), Attr("system")}
        \/ /\ Field(m, "type") = Attr("image") /\ Truthy(Field(m, "image"))
        \/ /\ Field(m, "type") = Attr("interactive")
           /\ Field(Field(m, "interactive"), "type") = Attr("button_reply")
           /\ Field(Field(m, "interactive"), "button_reply") = JNull
           /\ HasKey(Field(m, "interactive"), Attr("button_reply")) }

StatusPool ==
    LET Status(id, status, extra) ==
            JMap(<<Item(Attr("id"), JStr(<<id>>)), Item(Attr("status"), Attr(status)),
                   Item(Attr("timestamp"), JStr(<<"1700000002">>))>> \o extra)
    IN  { Status("wamid.1", status, <<Item(Attr("recipient_id"), JStr(<<"5511">>))>>) :
            status \in {"sent", "delivered", "read", "deleted"} }
        \cup { Status("wamid.2", "failed", <<>>),
               Status("wamid.3", "failed",
                      <<Item(Attr("errors"),
                             JList(<<JMap(<<Item(Attr("code"), JInt(131026))>>)>>))>>) }

DspInit ==
    /\ \E nm \in 0..MaxItems, ns \in 0..MaxItems :
          /\ nm + ns <= MaxItems
          /\ \E messages \in [1..nm -> DispatchMessagePool], statuses \in [1..ns -> StatusPool],
                pid \in PhoneNumberIds :
                webhook = [messages |-> messages, statuses |-> statuses,
                           phone_number_id |-> pid]
    /\ di = 1 /\ emitted = <<>> /\ dOut = "running"

\* for msg in webhook.messages: emitter.emit(_map_message(msg, pid))
\* `emitted` holds the events the emitter has taken; emitter.emit may raise
\* instead, and dispatch_webhook passes that on.
\* A slip that collects the events and hands them over after the loop: a
\* failure in the loop leaves none of them emitted.
DispatchMessage_buffered ==
    /\ dOut = "running" /\ di <= Len(webhook.messages)
    /\ \E event \in {_map_message(webhook.messages[di], webhook.phone_number_id)} :
          IF event.kind = "raise"
          THEN dOut' = "raised" /\ emitted' = <<>> /\ UNCHANGED di
          ELSE \/ emitted' = Append(emitted, event.value) /\ di' = di + 1 /\ dOut' = dOut
               \/ dOut' = "sink raised" /\ emitted' = <<>> /\ UNCHANGED di
    /\ UNCHANGED <<webhook, errVars, cliVars, whVars, fnVars, flVars>>

DispatchMessage ==
    /\ dOut = "running" /\ di <= Len(webhook.messages)
    /\ \E event \in {_map_message(webhook.messages[di], webhook.phone_number_id)} :
          IF event.kind = "raise"
          THEN dOut' = "raised" /\ UNCHANGED <<di, emitted>>
          ELSE \/ emitted' = Append(emitted, event.value) /\ di' = di + 1 /\ dOut' = dOut
               \/ dOut' = "sink raised" /\ UNCHANGED <<di, emitted>>
    /\ UNCHANGED <<webhook, errVars, cliVars, whVars, fnVars, flVars>>

\* for status in webhook.statuses: emitter.emit(...)
DispatchStatus ==
    /\ dOut = "running"
    /\ di > Len(webhook.messages) /\ di <= Len(webhook.messages) + Len(webhook.statuses)
    /\ \/ /\ emitted' = Append(emitted,
                                StatusEvent(webhook.statuses[di - Len(webhook.messages)],
                                            webhook.phone_number_id))
          /\ di' = di + 1 /\ dOut' = dOut
       \/ dOut' = "sink raised" /\ UNCHANGED <<di, emitted>>
    /\ UNCHANGED <<webhook, errVars, cliVars, whVars, fnVars, flVars>>

\* dispatch_webhook returns after the last status.
DispatchReturn ==
    /\ dOut = "running" /\ di > Len(webhook.messages) + Len(webhook.statuses)
    /\ dOut' = "returned"
    /\ UNCHANGED <<webhook, di, emitted, errVars, cliVars, whVars, fnVars, flVars>>

\* The changes the payloads are built from.
ChangePool ==
    LET Text(token) == JStr(<<token>>)
        Change(field, value) ==
            JMap(<<Item(WebhookKey.field, field), Item(WebhookKey.value, value)>>)
        alert == JMap(<<Item(JStr(<<"a", "l", "e", "r", "t", "T", "y", "p", "e">>),
                             Text("policy"))>>)
        data  == JMap(<<Item(JStr(<<"s", "o", "m", "e", "_", "d", "a", "t", "a">>),
                             Text("test"))>>)
        event == JMap(<<Item(JStr(<<"e", "v", "e", "n", "t", "N", "a", "m", "e">>),
                             Text("ready"))>>)
        Metadata(pid, dpn) ==
            JMap(<<Item(WebhookKey.display_phone_number, Text(dpn)),
                   Item(WebhookKey.phone_number_id, Text(pid))>>)
        contact == JMap(<<Item(WebhookKey.wa_id, Text("5511"))>>)
        message ==
            JMap(<<Item(WebhookKey.from, Text("5511")), Item(WebhookKey.id, Text("wamid.1")),
                   Item(WebhookKey.timestamp, Text("1700000000")),
                   Item(WebhookKey.type, Text("text"))>>)
        message_no_id ==
            JMap(<<Item(WebhookKey.timestamp, Text("1700000001")),
                   Item(WebhookKey.type, Text("text"))>>)
        status ==
            JMap(<<Item(WebhookKey.id, Text("wamid.9")), Item(WebhookKey.status, Text("sent")),
                   Item(WebhookKey.timestamp, Text("1700000002"))>>)
    IN  { Change(Text("account_alerts"), alert),
          Change(Text("account_alerts"), data),
          JMap(<<Item(WebhookKey.field, Text("flows"))>>),
          JMap(<<Item(WebhookKey.value, event)>>),
          Change(Text("flows"), Text("text")),
          Change(F_messages,
                 JMap(<<Item(WebhookKey.metadata, Metadata("123", "+1")),
                        Item(WebhookKey.contacts, JList(<<contact>>)),
                        Item(WebhookKey.messages, JList(<<message>>))>>)),
          Change(F_messages,
                 JMap(<<Item(WebhookKey.metadata, Metadata("456", "+2")),
                        Item(WebhookKey.statuses, JList(<<status>>))>>)),
          Change(F_messages,
                 JMap(<<Item(WebhookKey.messages, JList(<<message_no_id>>))>>)) }

\* Changes of the "messages" field: their contacts, messages and statuses
\* are told apart by their ids; one message lacks its id and one status its
\* status; one change has metadata without a phone_number_id and a message
\* with the keys "from" and "from_".
MessageChangePool ==
    LET Text(token) == JStr(<<token>>)
        Change(value) ==
            JMap(<<Item(WebhookKey.field, F_messages), Item(WebhookKey.value, value)>>)
        Metadata(pid, dpn) ==
            JMap(<<Item(WebhookKey.display_phone_number, Text(dpn)),
                   Item(WebhookKey.phone_number_id, Text(pid))>>)
        Contact(wa_id) == JMap(<<Item(WebhookKey.wa_id, Text(wa_id))>>)
        Message(id, type) ==
            JMap(<<Item(WebhookKey.from, Text("5511")), Item(WebhookKey.id, Text(id)),
                   Item(WebhookKey.timestamp, Text("1700000000")),
                   Item(WebhookKey.type, Text(type))>>)
        Image(id) ==
            JMap(<<Item(WebhookKey.id, Text(id)),
                   Item(JStr(<<"i", "m", "a", "g", "e">>),
                        JMap(<<Item(JStr(<<"m", "i", "m", "e", "T", "y", "p", "e">>),
                                    Text("image/jpeg"))>>)),
                   Item(WebhookKey.timestamp, Text("1700000003")),
                   Item(WebhookKey.type, Text("image"))>>)
        message_no_id ==
            JMap(<<Item(WebhookKey.timestamp, Text("1700000001")),
                   Item(WebhookKey.type, Text("text"))>>)
        Status(id, status) ==
            JMap(<<Item(WebhookKey.id, Text(id)), Item(WebhookKey.status, Text(status)),
                   Item(WebhookKey.timestamp, Text("1700000002"))>>)
        status_no_status ==
            JMap(<<Item(WebhookKey.id, Text("wamid.8")),
                   Item(WebhookKey.timestamp, Text("1700000002"))>>)
    IN  { Change(JMap(<<Item(WebhookKey.metadata, Metadata("123", "+1")),
                        Item(WebhookKey.contacts, JList(<<Contact("5511")>>)),
                        Item(WebhookKey.messages, JList(<<Message("wamid.1", "text")>>)),
                        Item(WebhookKey.statuses, JList(<<Status("wamid.7", "delivered")>>))>>)),
          Change(JMap(<<Item(WebhookKey.metadata, Metadata("456", "+2")),
                        Item(WebhookKey.contacts, JList(<<Contact("5522")>>)),
                        Item(WebhookKey.messages,
                             JList(<<Image("wamid.2"), Message("wamid.3", "text")>>)),
                        Item(WebhookKey.statuses, JList(<<Status("wamid.9", "sent")>>))>>)),
          Change(JMap(<<Item(WebhookKey.messages,
                             JList(<<Message("wamid.4", "text"), message_no_id>>))>>)),
          Change(JMap(<<Item(WebhookKey.statuses,
                             JList(<<Status("wamid.6", "read"), status_no_status>>))>>)),
          Change(JMap(<<Item(WebhookKey.metadata,
                             JMap(<<Item(WebhookKey.display_phone_number, Text("+3"))>>)),
                        Item(WebhookKey.messages,
                             JList(<<JMap(Message("wamid.5", "text").kv
                                          \o <<Item(WebhookKey.from_, Text("5533"))>>)>>))>>)) }

\* The entries a list of changes falls into when a new entry starts after
\* each position of `cuts`.
Entries(flat, cuts) ==
    LET starts == Ascending({1} \cup {i + 1 : i \in cuts})
    IN  [j \in 1..Len(starts) |->
            SubSeq(flat, starts[j],
                   IF j < Len(starts) THEN starts[j + 1] - 1 ELSE Len(flat))]

\* The payloads of at most MaxChanges changes drawn from `pool`, split into
\* entries in every way, and the payload without entries.
WhInitOf(pool) ==
    /\ \/ payload = <<>>
       \/ \E k \in 0..MaxChanges :
             \E flat \in [1..k -> pool], cuts \in SUBSET (1..(k - 1)) :
                payload = Entries(flat, cuts)
    /\ ei = NextPosition(0, 0)[1] /\ ci = NextPosition(0, 0)[2]
    /\ all_messages = <<>> /\ all_statuses = <<>> /\ all_contacts = <<>>
    /\ raw = <<>> /\ phone_number_id = JNull /\ display_phone_number = JNull
    /\ whOut = "running"

WhInit == WhInitOf(ChangePool)

WhIdle ==
    /\ payload = <<>> /\ ei = 1 /\ ci = 1
    /\ all_messages = <<>> /\ all_statuses = <<>> /\ all_contacts = <<>>
    /\ raw = <<>> /\ phone_number_id = JNull /\ display_phone_number = JNull
    /\ whOut = "returned"

-----------------------------------------------------------------------------
(* webhooks/verify.py                                                      *)
(* A str is the sequence of its code points here, bytes the sequence of    *)
(* its byte values, the header a sequence of characters.                   *)

\* str.encode("utf-8"); a surrogate code point raises UnicodeEncodeError
RECURSIVE Utf8From(_, _)
Utf8From(text, i) ==
    IF i > Len(text) THEN <<>>
    ELSE (IF text[i] < 128 THEN <<text[i]>>
          ELSE IF text[i] < 2048 THEN <<192 + (text[i] \div 64), 128 + (text[i] % 64)>>
          ELSE <<224 + (text[i] \div 4096), 128 + ((text[i] \div 64) % 64),
                 128 + (text[i] % 64)>>) \o Utf8From(text, i + 1)
encode(text) ==
    IF \E i \in 1..Len(text) : text[i] \in 55296..57343
    THEN Raise("UnicodeEncodeError") ELSE Return(Utf8From(text, 1))

HexDigits == <<"0", "1", "2", "3", "4", "5", "6", "7", "8", "9", "a", "b", "c", "d", "e", "f">>
RECURSIVE HexFrom(_, _)
HexFrom(bytes, i) ==
    IF i > Len(bytes) THEN <<>>
    ELSE <<HexDigits[(bytes[i] \div 16) + 1], HexDigits[(bytes[i] % 16) + 1]>>
            \o HexFrom(bytes, i + 1)

\* hmac.new(key, msg, hashlib.sha256).hexdigest(). SHA-256 is not computed:
\* the digest stands as a hex string that differs whenever the key or the
\* message differs (the length of the key, then key and message in hex).
hexdigest(key, msg) == HexFrom(<<Len(key)>> \o key \o msg, 1)

Sha256Prefix == <<"s", "h", "a", "2", "5", "6", "=">>

\* A slip that compares the header as it is.
removeprefix_never(text, prefix) == text

\* str.removeprefix
removeprefix(text, prefix) ==
    IF Len(text) >= Len(prefix) /\ SubSeq(text, 1, Len(prefix)) = prefix
    THEN SubSeq(text, Len(prefix) + 1, Len(text)) ELSE text

\* raw_body is [str |-> TRUE, v |-> code points] or [str |-> FALSE, v |-> bytes]
verify_signature(app_secret, raw_body, signature_header) ==
    IF ~signature_header.present \/ signature_header.v = <<>> THEN FALSE
    ELSE LET body == IF raw_body.str THEN encode(raw_body.v) ELSE Return(raw_body.v)
             key  == encode(app_secret)
         IN  IF body.kind = "raise" \/ key.kind = "raise" THEN FALSE
             ELSE hexdigest(key.value, body.value)
                     = removeprefix(signature_header.v, Sha256Prefix)

AppSecrets == {<<115, 49>>, <<115, 50>>, <<233>>, <<56000>>}
RawBodies ==
    { [str |-> FALSE, v |-> <<123, 125>>], [str |-> TRUE, v |-> <<123, 125>>],
      [str |-> TRUE, v |-> <<233>>], [str |-> FALSE, v |-> <<195, 169>>],
      [str |-> FALSE, v |-> <<233>>], [str |-> FALSE, v |-> <<>>],
      [str |-> TRUE, v |-> <<8364>>], [str |-> TRUE, v |-> <<55357>>] }
SignatureHeaders ==
    LET digests == { hexdigest(encode(secret).value, encode(body.v).value) :
                        secret \in {<<115, 49>>, <<115, 50>>},
                        body \in {b \in RawBodies : b.str /\ b.v # <<55357>>} }
    IN  {NoStr, Some(<<>>), Some(Sha256Prefix), Some(<<"s", "h", "a", "2", "5", "6">>)}
        \cup { Some(d) : d \in digests }
        \cup { Some(Sha256Prefix \o d) : d \in digests }
        \cup { Some(Sha256Prefix \o Sha256Prefix \o d) : d \in digests }
        \cup { Some(<<"s", "h", "a", "1", "=">> \o d) : d \in digests }
        \cup { Some(d \o <<"0">>) : d \in digests }

VerifySignatureCalls ==
    { [fn |-> "verify_signature", app_secret |-> app_secret, raw_body |-> raw_body,
       signature_header |-> signature_header] :
        app_secret \in AppSecrets, raw_body \in RawBodies,
        signature_header \in SignatureHeaders }

CallVerifySignature ==
    /\ fnCall.fn = "verify_signature" /\ fnOut.kind = "none"
    /\ fnOut' = Return(verify_signature(fnCall.app_secret, fnCall.raw_body,
                                        fnCall.signature_header))
    /\ UNCHANGED <<fnCall, errVars, cliVars, whVars, dspVars, flVars>>

-----------------------------------------------------------------------------
(* Calls of the pure functions of utils/case.py and errors/.               *)

MaxKeyLen == 5

\* snake_case keys: a letter first, then segments of letters and digits with
\* single underscores between
SnakeKeys ==
    { x \in UNION {[1..n -> {"a", "b", "2", "_"}] : n \in 1..MaxKeyLen} :
        /\ x[1] \in {"a", "b"} /\ x[Len(x)] # "_"
        /\ \A i \in 1..(Len(x) - 1) : ~(x[i] = "_" /\ x[i + 1] = "_") }

RoundTripCalls == { [fn |-> "to_snake(to_camel)", x |-> x] : x \in SnakeKeys }

CallToSnakeOfToCamel ==
    /\ fnCall.fn = "to_snake(to_camel)" /\ fnOut.kind = "none"
    /\ fnOut' = Return(to_snake(to_camel(fnCall.x)))
    /\ UNCHANGED <<fnCall, errVars, cliVars, whVars, dspVars, flVars>>

\* Nested values: scalars, lists, maps with camelCase and snake_case keys, a
\* map with an integer key, and maps with two keys that convert to the same.
DeepValues ==
    LET foo_bar == JStr(<<"f", "o", "o", "_", "b", "a", "r">>)
        fooBar  == JStr(<<"f", "o", "o", "B", "a", "r">>)
        inner   == JMap(<<Item(fooBar, JInt(1)), Item(JStr(<<"i", "d">>), JNull)>>)
    IN  { JNull, JStr(<<"fooBar">>), JInt(5), JBool(TRUE), JList(<<>>), JMap(<<>>),
          JList(<<inner, JInt(2), JList(<<inner>>)>>),
          JMap(<<Item(foo_bar, JList(<<inner, JStr(<<"x_y">>)>>)), Item(JStr(<<"a">>), inner)>>),
          JMap(<<Item(JInt(1), JStr(<<"one">>))>>),
          JList(<<JMap(<<Item(fooBar, JMap(<<Item(JNull, JInt(0))>>))>>)>>),
          JMap(<<Item(fooBar, JInt(1)), Item(foo_bar, JInt(2))>>) }

DeepCalls ==
    { [fn |-> fn, obj |-> obj] : fn \in {"to_camel_deep", "to_snake_deep"}, obj \in DeepValues }

CallToCamelDeep ==
    /\ fnCall.fn = "to_camel_deep" /\ fnOut.kind = "none"
    /\ fnOut' = IF HasNonStringKey(fnCall.obj) THEN Raise("TypeError")
                ELSE Return(to_camel_deep(fnCall.obj))
    /\ UNCHANGED <<fnCall, errVars, cliVars, whVars, dspVars, flVars>>

CallToSnakeDeep ==
    /\ fnCall.fn = "to_snake_deep" /\ fnOut.kind = "none"
    /\ fnOut' = IF HasNonStringKey(fnCall.obj) THEN Raise("TypeError")
                ELSE Return(to_snake_deep(fnCall.obj))
    /\ UNCHANGED <<fnCall, errVars, cliVars, whVars, dspVars, flVars>>

\* Maps of error fields, none with an "error" key.
ErrorFieldMaps ==
    LET Text(token) == JStr(<<token>>)
    IN  { JMap(<<>>),
          JMap(<<Item(ErrorKey.message, Text("Invalid token")), Item(ErrorKey.code, JInt(190)),
                 Item(ErrorKey.type, Text("OAuthException"))>>),
          JMap(<<Item(ErrorKey.code, JInt(4))>>),
          JMap(<<Item(ErrorKey.code, Text("abc")), Item(ErrorKey.details, Text("d"))>>),
          JMap(<<Item(ErrorKey.message, Text("Bad")), Item(ErrorKey.error_user_msg, Text("u")),
                 Item(ErrorKey.details, Text("d"))>>),
          JMap(<<Item(ErrorKey.error_user_msg, JStr(<<>>)), Item(ErrorKey.details, Text("d"))>>),
          JMap(<<Item(ErrorKey.code, JInt(131026)), Item(ErrorKey.error_subcode, JInt(33)),
                 Item(ErrorKey.fbtrace_id, Text("trace")),
                 Item(ErrorKey.error_data, JMap(<<Item(ErrorKey.details, Text("x"))>>))>>) }

FromResponseCalls ==
    { [fn |-> "from_response", http_status |-> http_status,
       body |-> IF wrapped THEN JMap(<<Item(ErrorKey.error, fields)>>) ELSE fields,
       retry_after_header |-> retry_after_header] :
        fields \in ErrorFieldMaps, wrapped \in BOOLEAN, http_status \in {400, 401, 500},
        retry_after_header \in ApiRetryAfter }

CallFromResponse ==
    /\ fnCall.fn = "from_response" /\ fnOut.kind = "none"
    /\ fnOut' = from_response(fnCall.http_status, fnCall.body, fnCall.retry_after_header)
    /\ UNCHANGED <<fnCall, errVars, cliVars, whVars, dspVars, flVars>>

\* GraphApiError(message, http_status=..., code=..., retry_after_header=...)
\* with every code of the table, codes outside it and no code.
GraphApiErrorCalls ==
    { [fn |-> "GraphApiError", http_status |-> http_status.v, code |-> code,
       retry_after_header |-> retry_after_header] :
        http_status \in {st \in Statuses : st.present}, code \in Codes,
        retry_after_header \in Headers }

CallGraphApiError ==
    /\ fnCall.fn = "GraphApiError" /\ fnOut.kind = "none"
    /\ fnOut' = GraphApiError(JStr(<<"Bad">>), fnCall.http_status,
                              (IF fnCall.code.present THEN JInt(fnCall.code.v) ELSE JNull),
                              JStr(<<>>), JNull, JNull, JNull, JNull,
                              fnCall.retry_after_header, JNull)
    /\ UNCHANGED <<fnCall, errVars, cliVars, whVars, dspVars, flVars>>

-----------------------------------------------------------------------------
(* resources/flows.py                                                      *)
(* The remote side is the list of the account's flows, each                *)
(* [id, json, published]; a request is answered by the Graph API with a    *)
(* map or with an error that the client raises.                            *)

MaxDeploys == 2

\* create: POST {waba_id}/flows. Its own publish step is left out: deploy
\* calls it with publish=False.
create(input) ==
    [method |-> "POST", path |-> <<input.waba_id, <<"flows">>>>,
     payload |-> [name |-> input.name, flow_json |-> input.flow_json]]

\* update_asset: POST {flow_id}/assets, or ValueError before any request.
\* The uploaded file is json.dumps(json_data).encode(), held as the value it
\* serializes, or the given bytes.
update_asset(input) ==
    IF Truthy(input.json_data)
    THEN Return([method |-> "POST", path |-> <<input.flow_id.s, <<"assets">>>>,
                 payload |-> [name |-> <<"flow.json">>, flow_json |-> input.json_data]])
    ELSE IF input.file.present /\ input.file.v # <<>>
    THEN Return([method |-> "POST", path |-> <<input.flow_id.s, <<"assets">>>>,
                 payload |-> [name |-> <<"flow.json">>,
                              flow_json |-> [JStr(input.file.v) EXCEPT !.t = "bytes"]]])
    ELSE Raise("ValueError")

\* publish: POST {flow_id}/publish
publish(flow_id) ==
    [method |-> "POST", path |-> <<flow_id.s, <<"publish">>>>, payload |-> JMap(<<>>)]

\* The answers of the Graph API to a request and the flows each leaves: a
\* create makes a flow under a new id (or is answered without an id, or
\* fails); an update or a publish acts on the flow with the id of the path,
\* and fails when there is none; any request may fail.
Served(remote, req) ==
    LET ids    == <<"F1", "F2", "F3", "F4", "F5", "F6">>
        new_id == <<ids[Len(remote) + 1]>>
        at     == {i \in 1..Len(remote) : remote[i].id = req.path[1]}
        ok     == JMap(<<Item(Attr("success"), JBool(TRUE))>>)
    IN  {[resp |-> Raise("GraphApiError"), flows |-> remote]}
        \cup
        (CASE req.path[2] = <<"flows">> ->
                { [resp |-> Return(JMap(<<Item(Attr("id"), JStr(new_id))>>)),
                   flows |-> Append(remote, [id |-> new_id, json |-> req.payload.flow_json,
                                             published |-> FALSE])],
                  [resp |-> Return(JMap(<<>>)), flows |-> remote] }
           [] req.path[2] = <<"assets">> ->
                { [resp |-> Return(ok),
                   flows |-> [remote EXCEPT ![i].json = req.payload.flow_json]] : i \in at }
           [] OTHER ->
                { [resp |-> Return(ok),
                   flows |-> [remote EXCEPT ![i].published = TRUE]] : i \in at })

DeployInputs ==
    [ flow_json : {JMap(<<>>), JMap(<<Item(Attr("version"), JStr(<<"7.0">>))>>)},
      name      : {<<"survey">>},
      waba_id   : {<<"waba-1">>},
      publish   : BOOLEAN,
      flow_id   : {JNull, EmptyStr, JStr(<<"F1">>)} ]

NoFlCall == [op |-> "none", pc |-> "done", n |-> 0, input |-> JNull, result |-> JNull,
             flow_id |-> JNull]

\* The account holds no flow, or one under the id F1.
FlInit ==
    /\ flows \in {<<>>, <<[id |-> <<"F1">>, json |-> JMap(<<>>), published |-> FALSE]>>}
    /\ flCall = NoFlCall /\ flSent = <<>> /\ flOut = [kind |-> "none"]

\* {**result, "flow_id": flow_id, "published": input.publish}
DeployResult(result, flow_id, published) ==
    Return(JMap(Merged(result.kv, <<Item(Attr("flow_id"), flow_id),
                                    Item(Attr("published"), JBool(published))>>)))

\* deploy up to the answer to its update or create request, and from there
\* to its return or to the publish request.
Deploy ==
    /\ flCall.pc = "done" /\ flCall.n < MaxDeploys
    /\ \E input \in DeployInputs :
       \E first \in { IF Truthy(input.flow_id)
                      THEN update_asset([flow_id |-> input.flow_id,
                                         json_data |-> input.flow_json, file |-> NoStr])
                      ELSE Return(create(input)) } :
          IF first.kind = "raise"
          THEN /\ flOut' = first
               /\ flCall' = [NoFlCall EXCEPT !.op = "deploy", !.n = flCall.n + 1,
                                             !.input = input]
               /\ UNCHANGED <<flows, flSent>>
          ELSE \E served \in Served(flows, first.value) :
               \E flow_id \in { IF served.resp.kind = "raise" THEN JNull
                                ELSE Or(input.flow_id,
                                        Get(served.resp.value, Attr("id"), EmptyStr)) } :
                  /\ flows' = served.flows
                  /\ flSent' = Append(flSent, [n |-> flCall.n + 1, input |-> input,
                                               req |-> first.value, resp |-> served.resp])
                  /\ flCall' = [op |-> "deploy", n |-> flCall.n + 1, input |-> input,
                                pc |-> IF served.resp.kind = "return" /\ input.publish
                                          /\ Truthy(flow_id)
                                       THEN "publish" ELSE "done",
                                result |-> IF served.resp.kind = "raise" THEN JNull
                                           ELSE served.resp.value,
                                flow_id |-> flow_id]
                  /\ flOut' = IF served.resp.kind = "raise" THEN served.resp
                              ELSE IF input.publish /\ Truthy(flow_id)
                              THEN [kind |-> "none"]
                              ELSE DeployResult(served.resp.value, flow_id, input.publish)
    /\ UNCHANGED <<errVars, cliVars, whVars, fnVars, dspVars>>

\* json_data and file of an UpdateFlowAssetInput: None, empty, or not empty
UpdateAssetInputs ==
    [ flow_id   : {JStr(<<"F1">>)},
      json_data : {JNull, JMap(<<>>), JMap(<<Item(Attr("version"), JStr(<<"7.0">>))>>)},
      file      : {NoStr, Some(<<>>), Some(<<"{}">>)} ]

\* A call of update_asset on its own
UpdateAsset ==
    /\ flCall.pc = "done" /\ flCall.n < MaxDeploys
    /\ \E input \in UpdateAssetInputs :
       \E first \in {update_asset(input)} :
          /\ flCall' = [NoFlCall EXCEPT !.op = "update_asset", !.n = flCall.n + 1,
                                        !.input = input]
          /\ IF first.kind = "raise"
             THEN flOut' = first /\ UNCHANGED <<flows, flSent>>
             ELSE \E served \in Served(flows, first.value) :
                     /\ flows' = served.flows
                     /\ flSent' = Append(flSent, [n |-> flCall.n + 1, input |-> input,
                                                  req |-> first.value,
                                                  resp |-> served.resp])
                     /\ flOut' = served.resp
    /\ UNCHANGED <<errVars, cliVars, whVars, fnVars, dspVars>>

\* deploy from its publish request to its return
DeployPublish ==
    /\ flCall.pc = "publish"
    /\ \E served \in Served(flows, publish(flCall.flow_id)) :
          /\ flows' = served.flows
          /\ flSent' = Append(flSent, [n |-> flCall.n, input |-> flCall.input,
                                       req |-> publish(flCall.flow_id),
                                       resp |-> served.resp])
          /\ flOut' = IF served.resp.kind = "raise" THEN served.resp
                      ELSE DeployResult(flCall.result, flCall.flow_id, flCall.input.publish)
    /\ flCall' = [flCall EXCEPT !.pc = "done"]
    /\ UNCHANGED <<errVars, cliVars, whVars, fnVars, dspVars>>

FnIdle == fnCall = [fn |-> "none"] /\ fnOut = [kind |-> "none"]
EmptyWebhook == [messages |-> <<>>, statuses |-> <<>>, phone_number_id |-> JNull]
DspIdle == webhook = EmptyWebhook /\ di = 1 /\ emitted = <<>> /\ dOut = "returned"
FlIdle == flows = <<>> /\ flCall = NoFlCall /\ flSent = <<>> /\ flOut = [kind |-> "none"]
RestIdle == FnIdle /\ DspIdle /\ FlIdle

ErrInit == ErrIdle /\ CliIdle /\ WhIdle /\ RestIdle
ErrNext == CallCategorizeError \/ CallGetRetryHint
SpecErr == ErrInit /\ [][ErrNext]_vars

CliNext ==
    \/ Request \/ GetPostDelete \/ FetchRaw \/ FetchAuthenticated
    \/ Aclose \/ AExit
    \/ DownloadStart \/ DownloadGet \/ DownloadFetch \/ DownloadRetryWithAuth
    \/ Forget
ClientInit == ErrIdle /\ CliInit /\ WhIdle /\ RestIdle
SpecClient == ClientInit /\ [][CliNext]_vars

WebhookNext == NormalizeChange \/ NormalizeReturn
WebhookInit == ErrIdle /\ CliIdle /\ WhInit /\ RestIdle
SpecWebhook == WebhookInit /\ [][WebhookNext]_vars

FnNext ==
    \/ CallMapMessage \/ CallVerifySignature \/ CallToSnakeOfToCamel
    \/ CallToCamelDeep \/ CallToSnakeDeep \/ CallFromResponse
    \/ CallGraphApiError
FnCalls ==
    MapMessageCalls \cup VerifySignatureCalls \cup RoundTripCalls \cup DeepCalls
        \cup FromResponseCalls \cup GraphApiErrorCalls
FnInit ==
    /\ ErrIdle /\ CliIdle /\ WhIdle /\ DspIdle /\ FlIdle
    /\ fnCall \in FnCalls /\ fnOut = [kind |-> "none"]
SpecFn == FnInit /\ [][FnNext]_vars

FlowsNext == Deploy \/ DeployPublish \/ UpdateAsset
FlowsInit == ErrIdle /\ CliIdle /\ WhIdle /\ FnIdle /\ DspIdle /\ FlInit
SpecFlows == FlowsInit /\ [][FlowsNext]_vars

DispatchNext == DispatchMessage \/ DispatchStatus \/ DispatchReturn
DispatchInit == ErrIdle /\ CliIdle /\ WhIdle /\ FnIdle /\ DspInit /\ FlIdle
SpecDispatch == DispatchInit /\ [][DispatchNext]_vars

\* Payloads whose changes are all of the "messages" field.
MessagesInit == ErrIdle /\ CliIdle /\ WhInitOf(MessageChangePool) /\ RestIdle
SpecMessages == MessagesInit /\ [][WebhookNext]_vars

-----------------------------------------------------------------------------
(* Claims about errors/                                                    *)

\* The code-to-category table as the source groups it, by category.
CodesOf(category) ==
    CASE category = "authorization"       -> {0, 190}
      [] category = "permission"          -> {10, 200, 299}
      [] category = "throttling"          -> {4, 80007, 130429, 131048, 131056}
      [] category = "parameter"           -> {33, 100, 130472, 131008, 131009, 131021, 131026, 135000}
      [] category = "media"               -> {131051, 131052, 131053}
      [] category = "template"            -> {132000, 132001, 132005, 132007, 132012, 132015, 132016}
      [] category = "flow"                -> {132068, 132069}
      [] category = "phone_registration"  -> {133000, 133004, 133005, 133006, 133008, 133009,
                                              133010, 133015, 133016}
      [] category = "reengagement_window" -> {131047}
      [] category = "integrity"           -> {368, 130497, 131031}
      [] OTHER                            -> {}

Tabulated(code) == code.present /\ code.v \in DOMAIN _CODE_TO_CATEGORY

\* C1: for a code that is a key of the table, categorize_error returns the
\* tabulated category whatever the http_status is (absent, below 500, 500 and
\* above), and every key of the table belongs to the group of its category.
C1_TabulatedCodeWins ==
    (errCall.fn = "categorize_error" /\ Tabulated(errCall.code))
        => /\ errOut.kind = "return"
           /\ errCall.code.v \in CodesOf(errOut.category)
           /\ errOut.category = _CODE_TO_CATEGORY[errCall.code.v]

C1_Witness ==
    /\ errCall.fn = "categorize_error"
    /\ errCall.code = Some(190) /\ errCall.http_status = Some(500)
    /\ errOut.category = "authorization"

\* C2: for a code that is absent or not a key of the table, categorize_error
\* returns "server" exactly when http_status is present and >= 500, and
\* "unknown" otherwise.
C2_StatusFallback ==
    (errCall.fn = "categorize_error" /\ ~Tabulated(errCall.code))
        => /\ errOut.kind = "return"
           /\ (errOut.category = "server")
                 <=> (errCall.http_status.present /\ errCall.http_status.v >= 500)
           /\ errOut.category \in {"server", "unknown"}

C2_Witness ==
    /\ errCall.fn = "categorize_error"
    /\ errCall.code = Some(99999) /\ errCall.http_status = Some(502)
    /\ errOut.category = "server"

\* C3: for every category and every retry-after header, get_retry_hint
\* returns a hint whose action is the category's action in the static table.
C3_ActionFromTable ==
    errCall.fn = "get_retry_hint"
        => /\ errOut.kind = "hint"
           /\ errOut.action = _CATEGORY_RETRY[errCall.category]

\* A header parses as a number when float() accepts it with a value other than nan.
ParsesAsNumber(header) == header.present /\ float(header.v).kind \in {"finite", "inf"}

\* C4: retry_after_ms is the header's seconds in milliseconds when the header
\* parses as a number; otherwise 60000 when the action is retry_after and
\* absent for every other action.
C4_RetryAfterMsRule ==
    errCall.fn = "get_retry_hint"
        => /\ errOut.kind = "hint"
           /\ ParsesAsNumber(errCall.header) => errOut.retry_after_ms.present
           /\ ~ParsesAsNumber(errCall.header) =>
                 errOut.retry_after_ms =
                    (IF _CATEGORY_RETRY[errCall.category] = "retry_after"
                     THEN Some(60000) ELSE Absent)
           /\ errOut.action = "retry_after" => errOut.retry_after_ms.present

\* C22: get_retry_hint raises for no retry-after header, and a header that
\* is not a finite number of seconds ("abc", "", "nan", "inf") gives the hint
\* of an absent header.
C22_NonFiniteHeaderIsAbsent ==
    errCall.fn = "get_retry_hint"
        => /\ errOut.kind = "hint"
           /\ errCall.header.present /\ float(errCall.header.v).kind # "finite"
                 => errOut = get_retry_hint(errCall.category, NoStr)

-----------------------------------------------------------------------------
(* Claims about client.py and resources/media.py                           *)

RequestOps == {"request", "GET", "POST", "DELETE"}
Done(ops) == cliCall.op \in ops /\ cliCall.pc = "done"

\* A response whose body decodes to a map, or is empty.
MapBody(resp) ==
    ~resp.failed /\ (resp.content.empty \/ (resp.content.json /\ resp.content.value.t = "map"))
BodyOf(resp) == IF resp.content.empty THEN JMap(<<>>) ELSE resp.content.value
\* The error fields of a body: under "error" when wrapped, else the body.
ErrorFields(body) ==
    IF HasKey(body, ErrorKey.error) /\ ValueAt(body, ErrorKey.error).t = "map"
    THEN ValueAt(body, ErrorKey.error) ELSE body
CodeOf(body) ==
    IF HasKey(ErrorFields(body), ErrorKey.code) /\ ValueAt(ErrorFields(body), ErrorKey.code).t = "int"
    THEN Some(ValueAt(ErrorFields(body), ErrorKey.code).n) ELSE Absent

\* C5: in non-raw mode a response with status >= 400 makes request() raise
\* a GraphApiError with that http_status, and category and retry hint from
\* the body's code and the retry-after header, whatever map the body decodes
\* to; a status below 400 returns the body with snake_case keys. (Stated for
\* retry-after headers other than "inf", on which get_retry_hint itself fails.)
C5_FailureStatusRaisesApiError ==
    (Done(RequestOps) /\ ~cliCall.raw_response /\ MapBody(sent[1].resp)
        /\ sent[1].resp.retry_after # Some(<<"i", "n", "f">>))
        => LET resp == sent[1].resp
               cat  == categorize_error(CodeOf(BodyOf(resp)), Some(resp.status))
           IN  IF resp.status >= 400
               THEN /\ cliOut.kind = "raise" /\ cliOut.exc = "GraphApiError"
                    /\ cliOut.error.http_status = resp.status
                    /\ cliOut.error.category = cat
                    /\ cliOut.error.retry = get_retry_hint(cat, resp.retry_after)
               ELSE cliOut = Return(to_snake_deep(BodyOf(resp)))

AuthorizedFns == {"request", "fetch_authenticated"}
CallerItems == IF Truthy(cliCall.headers) THEN cliCall.headers.kv ELSE <<>>
CallerSent(name) == \E i \in 1..Len(CallerItems) : CallerItems[i].k = name

\* C6 as stated: every request issued by request() and fetch_authenticated()
\* carries Authorization = "Bearer <access token>", whatever headers the
\* caller supplies, and the caller's other headers are passed through.
C6_AuthorizationNeverReplaced ==
    \A i \in 1..Len(sent) :
        sent[i].fn \in AuthorizedFns
            => /\ Get(sent[i].headers, H_Authorization, JNull) = Bearer(AccessToken)
               /\ \A j \in 1..Len(CallerItems) :
                     CallerItems[j].k # H_Authorization
                        => Get(sent[i].headers, CallerItems[j].k, JNull) = CallerItems[j].v

\* C6 amended: every such request carries an Authorization header; it is the
\* client's bearer value unless the caller supplied a header named
\* Authorization, whose value is then sent instead; every caller header is
\* passed through with the caller's value.
C6_AuthorizationUnlessCallerSupplied ==
    \A i \in 1..Len(sent) :
        sent[i].fn \in AuthorizedFns
            => /\ HasKey(sent[i].headers, H_Authorization)
               /\ ~CallerSent(H_Authorization)
                     => ValueAt(sent[i].headers, H_Authorization) = Bearer(AccessToken)
               /\ \A j \in 1..Len(CallerItems) :
                     Get(sent[i].headers, CallerItems[j].k, JNull) = CallerItems[j].v
               /\ Len(sent[i].headers.kv) = Len(CallerItems) + (IF CallerSent(H_Authorization) THEN 0 ELSE 1)

C6_Witness ==
    /\ Done({"fetch_authenticated"})
    /\ CallerSent(H_XTrace) /\ ~CallerSent(H_Authorization)
    /\ Len(sent) = 1
    /\ ValueAt(sent[1].headers, H_Authorization) = Bearer(AccessToken)
    /\ ValueAt(sent[1].headers, H_XTrace) = JStr(<<"1">>)

\* C7: the httpx client is closed exactly when the WhatsAppClient owns it and
\* aclose() has run at least once (directly or by leaving the context
\* manager); a supplied client is never closed, and _owns_client never changes.
C7_ClosedIffOwnedAndTornDown ==
    /\ [](http_closed <=> (owns_client /\ teardowns >= 1))
    /\ [][owns_client' = owns_client]_vars

C7_Witness == ~owns_client /\ teardowns >= 2 /\ ~http_closed

HasBearer(req) ==
    HasKey(req.headers, H_Authorization)
        /\ ValueAt(req.headers, H_Authorization) = Bearer(AccessToken)
Got401or403(req) == ~req.resp.failed /\ req.resp.status \in {401, 403}

\* C8: download fetches the metadata first, then the media URL; the first
\* fetch carries the bearer header exactly when use_auth; a second fetch is
\* issued exactly when the first returned 401 or 403, and carries the bearer
\* header; at most two fetches are issued and the bytes returned are those of
\* the last one.
C8_DownloadFetchOrder ==
    cliCall.op = "download"
        => /\ Len(sent) <= 3
           /\ \A i \in 1..Len(sent) :
                 IF i = 1 THEN sent[i].fn = "request" /\ sent[i].method = "GET"
                 ELSE sent[i].target = "url"
           /\ Len(sent) >= 2 => (HasBearer(sent[2]) <=> cliCall.use_auth)
           /\ Len(sent) >= 2 => ~HasKey(sent[2].headers, H_Authorization) \/ cliCall.use_auth
           /\ Len(sent) = 3 => Got401or403(sent[2]) /\ HasBearer(sent[3])
           /\ (cliCall.pc = "done" /\ Len(sent) >= 2 /\ Got401or403(sent[2])) => Len(sent) = 3
           /\ (cliCall.pc = "retry_with_auth") <=> (Len(sent) = 2 /\ Got401or403(sent[2]))
           /\ cliOut.kind = "return"
                 => /\ Len(sent) >= 2
                    /\ cliOut.value = sent[Len(sent)].resp.content.value
                    /\ sent[Len(sent)].resp.status \in 200..299

C8_Witness ==
    /\ Done({"download"}) /\ ~cliCall.use_auth
    /\ Len(sent) = 3 /\ sent[2].resp.status = 401 /\ ~HasKey(sent[2].headers, H_Authorization)
    /\ sent[2].resp.content.value = JStr(<<"bytes-a">>)
    /\ cliOut = Return(JStr(<<"bytes-b">>))

FailureStatus(req) == ~req.resp.failed /\ req.resp.status >= 400

\* C9 as stated: once a response with a failure status has been received for
\* a call, the library issues no further HTTP request for that call, media
\* download included; request() performs exactly one HTTP call.
C9_NothingFollowsAFailure ==
    /\ \A i \in 1..(Len(sent) - 1) : ~FailureStatus(sent[i])
    /\ Done(RequestOps) => Len(sent) = 1

\* C9 amended: the only request that follows a failure status within a call
\* is media download's one authenticated fetch of the media URL after a 401
\* or 403 from its first fetch; request() performs exactly one HTTP call,
\* whatever the error category and retry hint.
C9_OnlyAuthFallbackFollowsAFailure ==
    /\ \A i \in 1..(Len(sent) - 1) :
          FailureStatus(sent[i])
             => /\ cliCall.op = "download" /\ i = 2 /\ Len(sent) = 3
                /\ sent[2].resp.status \in {401, 403}
                /\ sent[3].fn = "fetch_authenticated"
    /\ Done(RequestOps) => Len(sent) = 1
    /\ (cliCall.op \in RequestOps \cup {"fetch_raw", "fetch_authenticated"}) => Len(sent) <= 1

C9_Witness ==
    /\ Done({"POST"}) /\ Len(sent) = 1 /\ sent[1].resp.status = 500
    /\ cliOut.kind = "raise" /\ cliOut.exc = "GraphApiError"
    /\ cliOut.error.retry.action = "retry"

-----------------------------------------------------------------------------
(* Claims about webhooks/normalize.py                                      *)

RECURSIVE Flatten(_, _)
Flatten(entries, n) == IF n = 0 THEN <<>> ELSE Flatten(entries, n - 1) \o entries[n]

\* The changes the loop has been through, in source order.
Processed ==
    IF ei > Len(payload) THEN Flatten(payload, Len(payload))
    ELSE Flatten(payload, ei - 1) \o SubSeq(payload[ei], 1, ci - 1)

FieldOf(change) == IF HasKey(change, WebhookKey.field) THEN ValueAt(change, WebhookKey.field) ELSE JStr(<<>>)
ValueOf(change) == IF HasKey(change, WebhookKey.value) THEN ValueAt(change, WebhookKey.value) ELSE JMap(<<>>)
OtherChanges == SelectSeq(Processed, LAMBDA ch : FieldOf(ch) # F_messages)
MessageChanges == SelectSeq(Processed, LAMBDA ch : FieldOf(ch) = F_messages)
RawAt(field) ==
    IF \E i \in 1..Len(raw) : raw[i].k = field
    THEN raw[CHOOSE i \in 1..Len(raw) : raw[i].k = field].v.items
    ELSE <<>>
RECURSIVE CountIn(_, _, _)
CountIn(changes, key, n) ==
    IF n = 0 THEN 0
    ELSE CountIn(changes, key, n - 1) + Len(ListAt(ValueOf(changes[n]), key))

\* C10: every change whose field is not "messages" appends its case-converted
\* value to raw[field], in source order, creating the list on first use, and
\* contributes nothing else; a "messages" change adds nothing to raw.
C10_OtherFieldsGoToRaw ==
    whOut # "raised" =>
        /\ \A i \in 1..Len(raw) :
              /\ raw[i].k # F_messages
              /\ \E j \in 1..Len(OtherChanges) : FieldOf(OtherChanges[j]) = raw[i].k
              /\ \A j \in 1..Len(raw) : raw[j].k = raw[i].k => j = i
        /\ \A j \in 1..Len(OtherChanges) :
              LET field == FieldOf(OtherChanges[j])
                  same  == SelectSeq(OtherChanges, LAMBDA ch : FieldOf(ch) = field)
              IN  RawAt(field) = [n \in 1..Len(same) |-> to_snake_deep(ValueOf(same[n]))]
        /\ Len(all_messages) = CountIn(MessageChanges, WebhookKey.messages, Len(MessageChanges))
        /\ Len(all_statuses) = CountIn(MessageChanges, WebhookKey.statuses, Len(MessageChanges))
        /\ Len(all_contacts) = CountIn(MessageChanges, WebhookKey.contacts, Len(MessageChanges))
        /\ MessageChanges = <<>> =>
              phone_number_id = JNull /\ display_phone_number = JNull

\* Two account_alerts changes around a messages change: both values are
\* under raw["account_alerts"] in source order, the camelCase key converted,
\* and the message comes from the messages change alone.
C10_Witness ==
    /\ whOut = "returned"
    /\ Len(Processed) = 3
    /\ FieldOf(Processed[2]) = F_messages
    /\ raw = <<Item(JStr(<<"account_alerts">>),
                    JList(<<JMap(<<Item(JStr(<<"a", "l", "e", "r", "t", "_", "t", "y", "p", "e">>),
                                        JStr(<<"policy">>))>>),
                            JMap(<<Item(JStr(<<"s", "o", "m", "e", "_", "d", "a", "t", "a">>),
                                        JStr(<<"test">>))>>)>>))>>
    /\ Len(all_messages) = 1

RECURSIVE ItemsIn(_, _, _)
\* The items under `key` of the first n changes, in source order.
ItemsIn(changes, key, n) ==
    IF n = 0 THEN <<>>
    ELSE ItemsIn(changes, key, n - 1) \o ListAt(ValueOf(changes[n]), key)

SourceItems(key) == ItemsIn(MessageChanges, key, Len(MessageChanges))
IdsOf(items) == [i \in 1..Len(items) |-> ValueAt(items[i], WebhookKey.id).s]

\* C11: messages, statuses and contacts are the items of the "messages"
\* changes gone through, in source order over entries and then changes, one
\* per source item: none dropped, duplicated or reordered.
C11_ListsFollowSourceOrder ==
    whOut # "raised" =>
        /\ Len(all_messages) = Len(SourceItems(WebhookKey.messages))
        /\ Len(all_statuses) = Len(SourceItems(WebhookKey.statuses))
        /\ Len(all_contacts) = Len(SourceItems(WebhookKey.contacts))
        /\ \A i \in 1..Len(all_messages) :
              all_messages[i] = NormalizedMessage(SourceItems(WebhookKey.messages)[i])
        /\ \A i \in 1..Len(all_statuses) :
              all_statuses[i] = to_snake_deep(SourceItems(WebhookKey.statuses)[i])
        /\ \A i \in 1..Len(all_contacts) :
              all_contacts[i] = to_snake_deep(SourceItems(WebhookKey.contacts)[i])

\* Two entries, the first with two changes: the three messages, two statuses
\* and two contacts come out in source order.
C11_Witness ==
    /\ whOut = "returned"
    /\ Len(payload) = 2 /\ Len(payload[1]) = 2 /\ Len(payload[2]) = 1
    /\ IdsOf(all_messages) =
          << <<"wamid.2">>, <<"wamid.3">>, <<"wamid.1">>, <<"wamid.2">>, <<"wamid.3">> >>
    /\ IdsOf(all_statuses) = << <<"wamid.9">>, <<"wamid.7">>, <<"wamid.9">> >>
    /\ [i \in 1..3 |-> ValueAt(all_contacts[i], WebhookKey.wa_id).s] =
          << <<"5522">>, <<"5511">>, <<"5522">> >>

\* C24: phone_number_id and display_phone_number are those of the metadata
\* of the first "messages" change gone through, absent when that metadata
\* lacks them; no later change sets or replaces either.
C24_MetadataOfFirstChangeOnly ==
    whOut # "raised" /\ MessageChanges # <<>>
        => LET metadata == Get(ValueOf(MessageChanges[1]), WebhookKey.metadata, JMap(<<>>))
           IN  /\ phone_number_id = Get(metadata, WebhookKey.phone_number_id, JNull)
               /\ display_phone_number
                     = Get(metadata, WebhookKey.display_phone_number, JNull)

\* C25: the from_ of a normalized message is the value under the raw
\* message's "from" key whenever it has one, whatever its other keys.
C25_FromBecomesFromUnderscore ==
    whOut # "raised"
        => \A i \in 1..Len(all_messages) :
              HasKey(SourceItems(WebhookKey.messages)[i], WebhookKey.from)
                => /\ HasKey(all_messages[i], WebhookKey.from_)
                   /\ ValueAt(all_messages[i], WebhookKey.from_)
                         = ValueAt(SourceItems(WebhookKey.messages)[i], WebhookKey.from)

\* The shape an item must have: each of the keys present with a string.
HasStrings(item, keys) ==
    \A k \in keys : \E i \in 1..Len(item.kv) : item.kv[i].k = k /\ item.kv[i].v.t = "str"
InvalidItems(changes) ==
    { i \in 1..Len(ItemsIn(changes, WebhookKey.messages, Len(changes))) :
        ~HasStrings(ItemsIn(changes, WebhookKey.messages, Len(changes))[i],
                    {WebhookKey.id, WebhookKey.type, WebhookKey.timestamp}) }
    \cup
    { -i : i \in { j \in 1..Len(ItemsIn(changes, WebhookKey.statuses, Len(changes))) :
        ~HasStrings(ItemsIn(changes, WebhookKey.statuses, Len(changes))[j],
                    {WebhookKey.id, WebhookKey.status, WebhookKey.timestamp}) } }

\* C12: a message or status item that lacks id, type/status or timestamp
\* makes normalize_webhook raise as soon as its change is gone through; a
\* result is returned only when every item of the payload is valid.
C12_InvalidItemAborts ==
    /\ InvalidItems(MessageChanges) # {} => whOut = "raised"
    /\ whOut = "returned" => InvalidItems(Flatten(payload, Len(payload))) = {}

\* The call has raised on the invalid message of the second change, with a
\* valid change before it and one after it still to come.
C12_Witness ==
    /\ whOut = "raised"
    /\ Len(Flatten(payload, Len(payload))) = 3 /\ Len(Processed) = 2
    /\ InvalidItems(SubSeq(Processed, 1, 1)) = {}
    /\ InvalidItems(SubSeq(Processed, 2, 2)) = {2}
    /\ InvalidItems(SubSeq(Flatten(payload, Len(payload)), 3, 3)) = {}

-----------------------------------------------------------------------------
(* Claims about events/dispatcher.py                                       *)

Called(fn) == fnCall.fn = fn /\ fnOut.kind # "none"

KnownTypes ==
    {"text", "image", "video", "audio", "document", "sticker", "location",
     "contacts", "reaction", "interactive", "order"}
TypeOf(msg) == ValueAt(msg, JStr(<<"type">>)).s[1]

\* C13: _map_message returns exactly one event for every validated message
\* and never raises, an interactive message whose reply entry is null or not
\* a map included; a type outside the known set gives UnknownMessageReceived
\* with the raw type and the raw payload.
C13_MapMessageTotal ==
    Called("_map_message")
        => /\ fnOut.kind = "return"
           /\ TypeOf(fnCall.msg) \notin KnownTypes
                 => /\ fnOut.value.kind = "UnknownMessageReceived"
                    /\ fnOut.value.data.raw_type = <<TypeOf(fnCall.msg)>>
                    /\ fnOut.value.data.raw_data = fnCall.msg

\* The event of each tag that has one of its own, with every field at its default.
DefaultEvent ==
    [text     |-> [kind |-> "TextReceived", data |-> [body |-> EmptyStr]],
     image    |-> [kind |-> "ImageReceived",
                   data |-> [image_id |-> EmptyStr, mime_type |-> EmptyStr,
                             sha256 |-> EmptyStr, caption |-> JNull]],
     video    |-> [kind |-> "VideoReceived",
                   data |-> [video_id |-> EmptyStr, mime_type |-> EmptyStr,
                             sha256 |-> EmptyStr, caption |-> JNull]],
     audio    |-> [kind |-> "AudioReceived",
                   data |-> [audio_id |-> EmptyStr, mime_type |-> EmptyStr,
                             sha256 |-> EmptyStr, voice |-> JBool(FALSE)]],
     document |-> [kind |-> "DocumentReceived",
                   data |-> [document_id |-> EmptyStr, mime_type |-> EmptyStr,
                             sha256 |-> EmptyStr, filename |-> JNull, caption |-> JNull]],
     sticker  |-> [kind |-> "StickerReceived",
                   data |-> [sticker_id |-> EmptyStr, mime_type |-> EmptyStr,
                             animated |-> JBool(FALSE)]],
     location |-> [kind |-> "LocationReceived",
                   data |-> [latitude |-> JInt(0), longitude |-> JInt(0),
                             name |-> JNull, address |-> JNull]],
     contacts |-> [kind |-> "ContactsReceived", data |-> [contacts |-> JList(<<>>)]],
     reaction |-> [kind |-> "ReactionReceived",
                   data |-> [emoji |-> JNull, reacted_message_id |-> EmptyStr]],
     order    |-> [kind |-> "OrderReceived",
                   data |-> [catalog_id |-> EmptyStr, product_items |-> JList(<<>>),
                             order_text |-> JNull]]]

LacksPayload(msg) == Get(msg, JStr(<<TypeOf(msg)>>), JNull) = JNull

C27_ResponseJsonIsAMap ==
    Called("_map_message") /\ TypeOf(fnCall.msg) = "interactive"
            /\ Get(Get(fnCall.msg, JStr(<<"interactive">>), JMap(<<>>)),
                   JStr(<<"type">>), JNull) = JStr(<<"nfm_reply">>)
            /\ Get(Get(fnCall.msg, JStr(<<"interactive">>), JMap(<<>>)),
                   JStr(<<"nfm_reply">>), JNull).t = "map"
        => /\ fnOut.kind = "return"
           /\ fnOut.value.kind = "FlowResponse"
           /\ fnOut.value.data.response_json.t = "map"

StatusOf(status) == ValueAt(status, JStr(<<"status">>)).s[1]
HasField(obj, name) == \E i \in 1..Len(obj.kv) : obj.kv[i].k = JStr(<<name>>)
MessageEvents == SubSeq(emitted, 1, Len(webhook.messages))
StatusEvents == SubSeq(emitted, Len(webhook.messages) + 1, Len(emitted))

\* C14: the event of a status update is MessageSent, MessageDelivered,
\* MessageRead or MessageFailed for sent, delivered, read and failed, and
\* MessageSent for any other status; its message_id is the status id, its
\* recipient_id defaults to "" and the errors of MessageFailed to the empty
\* list; a dispatch that returns has emitted one event per status.
C14_StatusMapping ==
    /\ \A j \in 1..Len(StatusEvents) :
          LET status == webhook.statuses[j]
              event  == StatusEvents[j]
          IN  /\ event.kind =
                    CASE StatusOf(status) = "delivered" -> "MessageDelivered"
                      [] StatusOf(status) = "read"      -> "MessageRead"
                      [] StatusOf(status) = "failed"    -> "MessageFailed"
                      [] OTHER                          -> "MessageSent"
              /\ event.base.message_id = ValueAt(status, JStr(<<"id">>))
              /\ event.base.recipient_id =
                    IF HasField(status, "recipient_id")
                    THEN ValueAt(status, JStr(<<"recipient_id">>)) ELSE JStr(<<>>)
              /\ event.kind = "MessageFailed"
                    => event.data.errors =
                          IF HasField(status, "errors")
                          THEN ValueAt(status, JStr(<<"errors">>)) ELSE JList(<<>>)
    /\ Len(StatusEvents) <= Len(webhook.statuses)
    /\ dOut = "returned" => Len(StatusEvents) = Len(webhook.statuses)

\* A dispatch has returned after a read, a failed (no errors, no recipient)
\* and a deleted status.
C14_Witness ==
    /\ dOut = "returned" /\ webhook.messages = <<>>
    /\ [j \in 1..Len(webhook.statuses) |-> StatusOf(webhook.statuses[j])] =
          <<"read", "failed", "deleted">>
    /\ ~HasField(webhook.statuses[2], "errors")
    /\ [j \in 1..Len(emitted) |-> emitted[j].kind] =
          <<"MessageRead", "MessageFailed", "MessageSent">>
    /\ emitted[2].data.errors = JList(<<>>) /\ emitted[2].base.recipient_id = JStr(<<>>)

\* C15: a dispatch emits len(messages) + len(statuses) events: one per
\* message in the order of webhook.messages, then one per status in the order
\* of webhook.statuses.
C15_OneEventPerItemInOrder ==
    /\ \A k \in 1..Len(emitted) :
          IF k <= Len(webhook.messages)
          THEN emitted[k].base.message_id = ValueAt(webhook.messages[k], JStr(<<"id">>))
                  /\ "from_number" \in DOMAIN emitted[k].base
          ELSE emitted[k].base.message_id =
                  ValueAt(webhook.statuses[k - Len(webhook.messages)], JStr(<<"id">>))
                  /\ "recipient_id" \in DOMAIN emitted[k].base
    /\ dOut \in {"returned", "raised"}
          => Len(emitted) = Len(webhook.messages) + Len(webhook.statuses)

\* The event of item k of the webhook, messages first.
EventOf(k) ==
    IF k <= Len(webhook.messages)
    THEN _map_message(webhook.messages[k], webhook.phone_number_id).value
    ELSE StatusEvent(webhook.statuses[k - Len(webhook.messages)], webhook.phone_number_id)

\* C28: events are handed over one at a time as they are produced: at every
\* point of a dispatch, and so when mapping or the emitter fails at item k,
\* the events emitted are those of the items before it, in order, and none
\* of a later item.
C28_EmittedAsProduced ==
    /\ emitted = [k \in 1..(di - 1) |-> EventOf(k)]
    /\ dOut \in {"raised", "sink raised"}
          => di <= Len(webhook.messages) + Len(webhook.statuses)

\* The emitter fails on the third item after taking two events.
C28_Witness ==
    /\ dOut = "sink raised" /\ di = 3 /\ Len(emitted) = 2
    /\ Len(webhook.messages) + Len(webhook.statuses) = 3

-----------------------------------------------------------------------------
(* Claims about webhooks/verify.py                                         *)

\* The digest of the body's exact bytes (a text body as UTF-8) under the
\* secret, when both can be encoded.
ExpectedDigest ==
    LET key  == encode(fnCall.app_secret)
        body == IF fnCall.raw_body.str THEN encode(fnCall.raw_body.v)
                ELSE Return(fnCall.raw_body.v)
    IN  IF key.kind = "raise" \/ body.kind = "raise" THEN Absent
        ELSE Some(hexdigest(key.value, body.value))

\* C16: verify_signature returns true exactly when the header is present, is
\* not empty and, with or without a leading "sha256=", is the hexadecimal
\* HMAC-SHA256 of the raw body's bytes keyed by the app secret.
C16_TrueIffHeaderIsTheDigest ==
    Called("verify_signature")
        => (fnOut.value = TRUE
              <=> /\ fnCall.signature_header.present
                  /\ fnCall.signature_header.v # <<>>
                  /\ ExpectedDigest.present
                  /\ \/ fnCall.signature_header.v = ExpectedDigest.v
                     \/ fnCall.signature_header.v = Sha256Prefix \o ExpectedDigest.v)

\* A text body outside ASCII is accepted under its prefixed digest.
C16_Witness ==
    /\ Called("verify_signature") /\ fnOut.value = TRUE
    /\ fnCall.raw_body = [str |-> TRUE, v |-> <<233>>]
    /\ SubSeq(fnCall.signature_header.v, 1, 7) = Sha256Prefix

-----------------------------------------------------------------------------
(* Claims about utils/case.py                                              *)

\* C17: to_snake(to_camel(x)) = x for every snake_case key x, keys with
\* single-letter segments and with digit segments included.
C17_SnakeKeysRoundTrip ==
    Called("to_snake(to_camel)") => fnOut.value = fnCall.x

\* Lists keep length and order, maps keep their number of keys and their
\* non-string keys, scalars are unchanged.
RECURSIVE SameShape(_, _)
SameShape(a, b) ==
    CASE a.t = "list" ->
            /\ b.t = "list" /\ Len(b.items) = Len(a.items)
            /\ \A i \in 1..Len(a.items) : SameShape(a.items[i], b.items[i])
      [] a.t = "map"  ->
            /\ b.t = "map" /\ Len(b.kv) = Len(a.kv)
            /\ \A i \in 1..Len(a.kv) :
                  /\ SameShape(a.kv[i].v, b.kv[i].v)
                  /\ a.kv[i].k.t # "str" => b.kv[i].k = a.kv[i].k
      [] OTHER        -> b = a

\* C18: to_camel_deep and to_snake_deep return on every nested value, maps
\* with non-string keys included, and the result has the shape of the input:
\* no two keys collapse into one, non-string keys and scalars are unchanged.
C18_DeepTotalAndShapePreserving ==
    Called("to_camel_deep") \/ Called("to_snake_deep")
        => /\ fnOut.kind = "return"
           /\ SameShape(fnCall.obj, fnOut.value)

-----------------------------------------------------------------------------
(* Claims about GraphApiError.from_response                                *)

ErrorFieldsOf(e) ==
    [message |-> e.message, code |-> e.code, type |-> e.type, details |-> e.details,
     error_subcode |-> e.error_subcode, fbtrace_id |-> e.fbtrace_id,
     error_data |-> e.error_data, category |-> e.category, retry |-> e.retry]
IsWrapped(body) == HasKey(body, ErrorKey.error)
FieldOr(fields, key, default) == IF HasKey(fields, key) THEN ValueAt(fields, key) ELSE default

\* C19: from_response gives the same message, code, type, details,
\* error_subcode, fbtrace_id, error_data, category and retry hint for the body
\* {"error": E} as for the flat body E; a field missing from E is
\* "Unknown Graph API error" for message, "" for type, absent for the others.
C19_WrappedAndFlatAgree ==
    Called("from_response")
        => LET E    == FieldOr(fnCall.body, ErrorKey.error, fnCall.body)
               flat == from_response(fnCall.http_status, E, fnCall.retry_after_header)
           IN  /\ fnOut.kind = flat.kind
               /\ fnOut.kind = "raise" => fnOut = flat
               /\ fnOut.kind = "GraphApiError"
                    => /\ ErrorFieldsOf(fnOut) = ErrorFieldsOf(flat)
                       /\ fnOut.message
                            = FieldOr(E, ErrorKey.message, JStr(<<"Unknown Graph API error">>))
                       /\ fnOut.type = FieldOr(E, ErrorKey.type, JStr(<<>>))
                       /\ fnOut.code = FieldOr(E, ErrorKey.code, JNull)
                       /\ fnOut.error_subcode = FieldOr(E, ErrorKey.error_subcode, JNull)
                       /\ fnOut.fbtrace_id = FieldOr(E, ErrorKey.fbtrace_id, JNull)
                       /\ fnOut.error_data = FieldOr(E, ErrorKey.error_data, JNull)
                       /\ ~HasKey(E, ErrorKey.error_user_msg)
                            => fnOut.details = FieldOr(E, ErrorKey.details, JNull)

\* A wrapped body whose error fields hold a code and nothing else.
C19_Witness ==
    /\ Called("from_response") /\ IsWrapped(fnCall.body)
    /\ fnOut.kind = "GraphApiError"
    /\ fnOut.code = JInt(4) /\ fnOut.category = "throttling"
    /\ fnOut.message = JStr(<<"Unknown Graph API error">>)
    /\ fnOut.fbtrace_id = JNull

------------------------------------------------------------------------\* C23: details is error_user_msg whenever that key is present and not null,
\* the empty string included, and the body's details value otherwise.
C23_DetailsFirstNonNull ==
    Called("from_response") /\ fnOut.kind = "GraphApiError"
        => LET E == FieldOr(fnCall.body, ErrorKey.error, fnCall.body)
           IN  fnOut.details
                 = IF FieldOr(E, ErrorKey.error_user_msg, JNull) # JNull
                   THEN ValueAt(E, ErrorKey.error_user_msg)
                   ELSE FieldOr(E, ErrorKey.details, JNull)

-----
(* Claims about resources/flows.py                                         *)

MadeAFlow(exchange) ==
    /\ exchange.req.path[2] = <<"flows">>
    /\ exchange.resp.kind = "return" /\ HasKey(exchange.resp.value, Attr("id"))

\* C20: a deploy that repeats the input of an earlier deploy creates no
\* additional flow, and no deploy publishes more than once.
C20_DeployIsIdempotent ==
    /\ \A i, j \in 1..Len(flSent) :
          flSent[i].n < flSent[j].n /\ flSent[i].input = flSent[j].input
              /\ MadeAFlow(flSent[i])
            => ~MadeAFlow(flSent[j])
    /\ \A i, j \in 1..Len(flSent) :
          flSent[i].n = flSent[j].n /\ flSent[i].req.path[2] = <<"publish">>
              /\ flSent[j].req.path[2] = <<"publish">>
            => i = j

SentBy(n) == {i \in 1..Len(flSent) : flSent[i].n = n}

\* C21: update_asset raises ValueError and sends nothing exactly when neither
\* json_data nor file was given; with either given, an empty map or empty
\* bytes included, it sends exactly one POST to {flow_id}/assets.
C21_RaisesIffNothingProvided ==
    flCall.op = "update_asset"
        => LET provided == flCall.input.json_data # JNull \/ flCall.input.file.present
           IN  /\ (flOut = Raise("ValueError") /\ SentBy(flCall.n) = {}) <=> ~provided
               /\ provided
                    => /\ Cardinality(SentBy(flCall.n)) = 1
                       /\ \A i \in SentBy(flCall.n) :
                             /\ flSent[i].req.method = "POST"
                             /\ flSent[i].req.path = <<flCall.input.flow_id.s, <<"assets">>>>

\* The requests of call n, in the order sent.
RequestsOf(n) == SelectSeq(flSent, LAMBDA exchange : exchange.n = n)

\* C29: a deploy with a flow_id posts one asset update and no create, one
\* without posts one create; a publish request follows exactly when publish
\* is asked for, the first request succeeded and a non-empty flow id is
\* known, and there is at most one; the result's flow_id is the given
\* flow_id or else the created id.
C29_DeployRequestOrder ==
    flCall.op = "deploy" /\ flCall.pc = "done"
        => LET mine  == RequestsOf(flCall.n)
               input == flCall.input
               given == input.flow_id \notin {JNull, EmptyStr}
               id    == IF given THEN input.flow_id
                        ELSE Get(mine[1].resp.value, Attr("id"), EmptyStr)
               then_publish ==
                   /\ mine[1].resp.kind = "return" /\ input.publish
                   /\ id \notin {JNull, EmptyStr}
           IN  /\ Len(mine) >= 1
               /\ mine[1].req.path = IF given THEN <<input.flow_id.s, <<"assets">>>>
                                     ELSE <<input.waba_id, <<"flows">>>>
               /\ Len(mine) = IF then_publish THEN 2 ELSE 1
               /\ then_publish => mine[2].req.path = <<id.s, <<"publish">>>>
               /\ flOut.kind = "return" => Get(flOut.value, Attr("flow_id"), JNull) = id

C29_ExceptEmptyFlowJson ==
    flOut # Raise("ValueError") => C29_DeployRequestOrder

-----------------------------------------------------------------------------
(* Claims about a GraphApiError as built                                   *)

\* C30: on every GraphApiError, whatever it was built from, retry.action is
\* the table action of its category, requires_token_refresh() agrees with
\* is_auth_error(), is_rate_limit() agrees with retry.action = "retry_after"
\* and then retry.retry_after_ms is present, and the category is none of
\* business_eligibility, waba_config and synchronization.
C30_HelpersAgreeWithRetry ==
    fnOut.kind = "GraphApiError"
        => /\ fnOut.retry.action = _CATEGORY_RETRY[fnOut.category]
           /\ requires_token_refresh(fnOut) <=> is_auth_error(fnOut)
           /\ is_rate_limit(fnOut) <=> fnOut.retry.action = "retry_after"
           /\ is_rate_limit(fnOut) => fnOut.retry.retry_after_ms.present
           /\ fnOut.category \notin {"business_eligibility", "waba_config", "synchronization"}

C30_Witness ==
    /\ fnCall.fn = "GraphApiError" /\ fnCall.code = Some(130429)
    /\ fnCall.http_status = 502 /\ fnCall.retry_after_header = Some(<<"n", "a", "n">>)
    /\ fnOut.kind = "GraphApiError" /\ is_rate_limit(fnOut)
    /\ fnOut.retry = RetryHint("retry_after", Some(DefaultRetryAfterMs))

====
